---- MODULE Spec2Model ----
(***************************************************************************)
(* Model of the schema-driven extraction / repair / validation pipeline of *)
(* src/utils/openrouter.ts (generateContent and the functions it calls).   *)
(*                                                                         *)
(* JSON values are tagged records [k |-> kind, v |-> payload]:             *)
(*   undef, null (v = 0), bool (v \in BOOLEAN), num (v \in Int),           *)
(*   str (v = sequence of chunks; a chunk is " " or a run of non-blank     *)
(*   characters), arr (v = sequence of values), obj (v = function from     *)
(*   property names to values).                                            *)
(***************************************************************************)
EXTENDS Integers, Sequences, FiniteSets, TLC

(***************************************************************************)
(* JavaScript values                                                       *)
(***************************************************************************)
Undef == [k |-> "undef", v |-> 0]

JNull == [k |-> "null", v |-> 0]

JBool(b) == [k |-> "bool", v |-> b]

JNum(n) == [k |-> "num", v |-> n]

JStr(s) == [k |-> "str", v |-> s]

JArr(a) == [k |-> "arr", v |-> a]

JObj(f) == [k |-> "obj", v |-> f]

\* a one-chunk string such as 'hero'
Str(c) == JStr(<<c>>)

EmptyObj == JObj(<<>>)

IsArray(x) == x.k = "arr"

IsStr(x) == x.k = "str"

IsNullish(x) == x.k \in {"null", "undef"}

\* typeof x
TypeOf(x) ==
  CASE x.k = "undef" -> "undefined"
    [] x.k = "bool" -> "boolean"
    [] x.k = "num" -> "number"
    [] x.k = "str" -> "string"
    [] OTHER -> "object"

\* ToBoolean(x): the test made by !x, x || y, if (x)
Truthy(x) ==
  CASE x.k \in {"undef", "null"} -> FALSE
    [] x.k = "bool" -> x.v
    [] x.k = "num" -> x.v # 0
    [] x.k = "str" -> x.v # <<>>
    [] OTHER -> TRUE

\* key in obj (obj is a plain object)
HasKey(o, key) == o.k = "obj" /\ key \in DOMAIN o.v

\* x.key for a non-nullish x (property reads on null / undefined throw and
\* are modelled where they occur)
Get(x, key) == IF HasKey(x, key) THEN x.v[key] ELSE Undef

\* obj.key = val
Put(o, key, val) ==
  JObj([f \in (DOMAIN o.v) \cup {key} |-> IF f = key THEN val ELSE o.v[f]])

\* delete obj.key
Del(o, key) == JObj([f \in (DOMAIN o.v) \ {key} |-> o.v[f]])

\* keep only the keys in ks
Restrict(o, ks) == JObj([f \in (DOMAIN o.v) \cap ks |-> o.v[f]])

\* s.trim() on chunk sequences
RECURSIVE TrimLeft(_)
TrimLeft(s) == IF s # <<>> /\ Head(s) = " " THEN TrimLeft(Tail(s)) ELSE s

RECURSIVE TrimRight(_)
TrimRight(s) ==
  IF s # <<>> /\ s[Len(s)] = " " THEN TrimRight(SubSeq(s, 1, Len(s) - 1)) ELSE s

Trim(s) == TrimRight(TrimLeft(s))

\* s.trim() === '' / s.trim().length === 0
IsBlank(s) == Trim(s) = <<>>

SeqToSet(s) == {s[i] : i \in DOMAIN s}

\* arr.includes(x)
Includes(s, x) == \E i \in DOMAIN s : s[i] = x

\* arr.filter(p) for a predicate given as the set of kept indices
RECURSIVE FilterIdx(_, _, _)
FilterIdx(s, keep, i) ==
  IF i > Len(s) THEN <<>>
  ELSE (IF i \in keep THEN <<s[i]>> ELSE <<>>) \o FilterIdx(s, keep, i + 1)

(***************************************************************************)
(* Provider whitelist (utils/providerIds)                                  *)
(***************************************************************************)
PROVIDER_WHITELIST == <<"vindstod-id", "andel-id", "norlys-id", "nrgi-id">>

isValidProviderId(id) ==
  id.k = "str" /\ \E i \in DOMAIN PROVIDER_WHITELIST : id = Str(PROVIDER_WHITELIST[i])

(***************************************************************************)
(* Schema manifests.  A manifest is [present, hasTypes, contentBlockTypes];*)
(* a block type spec is [type, requiredFields, hasFieldTypes, fieldTypes,  *)
(* hasFieldEnums, fieldEnums].                                             *)
(***************************************************************************)
BlockSpec(t, req, hasFT, ft, hasFE, fe) ==
  [type |-> t, requiredFields |-> req, hasFieldTypes |-> hasFT, fieldTypes |-> ft,
   hasFieldEnums |-> hasFE, fieldEnums |-> fe]

NoFields == [f \in {} |-> ""]

NoEnums == [f \in {} |-> <<>>]

\* request.schema is null / undefined
SchemaNull == [present |-> FALSE, hasTypes |-> FALSE, contentBlockTypes |-> <<>>]

\* a schema object without the contentBlockTypes array (e.g. a raw Sanity schema)
SchemaNoTypes == [present |-> TRUE, hasTypes |-> FALSE, contentBlockTypes |-> <<>>]

\* the first manifest of the dev log: block types and required fields only
SchemaBasic ==
  [present |-> TRUE, hasTypes |-> TRUE, contentBlockTypes |-> <<
     BlockSpec("hero", <<"headline", "subheadline">>, FALSE, NoFields, FALSE, NoEnums),
     BlockSpec("pageSection", <<"title", "content">>, FALSE, NoFields, FALSE, NoEnums),
     BlockSpec("faqGroup", <<"title", "faqItems">>, FALSE, NoFields, FALSE, NoEnums),
     BlockSpec("providerList", <<"title", "providers">>, FALSE, NoFields, FALSE, NoEnums) >>]

\* the later manifest: field types and enums declared
SchemaTyped ==
  [present |-> TRUE, hasTypes |-> TRUE, contentBlockTypes |-> <<
     BlockSpec("hero", <<"headline", "subheadline">>, TRUE,
               [headline |-> "string", subheadline |-> "string", image |-> "image?"],
               FALSE, NoEnums),
     BlockSpec("pageSection", <<"title", "content">>, TRUE,
               [title |-> "string", content |-> "array of Portable Text blocks"],
               FALSE, NoEnums),
     BlockSpec("faqGroup", <<"title", "faqItems">>, TRUE,
               [title |-> "string"], FALSE, NoEnums),
     BlockSpec("providerList", <<"title", "providers">>, TRUE,
               [title |-> "string", providers |-> "array of references"],
               FALSE, NoEnums),
     BlockSpec("livePriceGraph", <<"title", "apiRegion">>, TRUE,
               [title |-> "string", apiRegion |-> "string"],
               TRUE, [apiRegion |-> <<"DK1", "DK2">>]) >>]

\* an uploaded custom manifest: any JSON with a contentBlockTypes array is
\* taken; this one declares no pageSection type
SchemaCustom ==
  [present |-> TRUE, hasTypes |-> TRUE, contentBlockTypes |-> <<
     BlockSpec("hero", <<"headline">>, FALSE, NoFields, FALSE, NoEnums),
     BlockSpec("article", <<"title">>, FALSE, NoFields, FALSE, NoEnums) >>]

Schemas == <<SchemaNull, SchemaNoTypes, SchemaBasic, SchemaTyped, SchemaCustom>>

\* schema.contentBlockTypes.map(block => block.type)
manifestBlockTypes(schema) ==
  [i \in DOMAIN schema.contentBlockTypes |-> schema.contentBlockTypes[i].type]

(***************************************************************************)
(* Request precondition check                                              *)
(***************************************************************************)
ErrNoManifest == "Schema manifest not loaded"

ErrInvalidBlocks == "Invalid block types requested"

ErrTopic == "Topic is required"

ErrKeywords == "At least one keyword is required"

\* variant: the check stops at the first violated precondition
validateGenerationRequest_firstOnly(request) ==
  IF ~request.schema.present \/ ~request.schema.hasTypes
  THEN <<ErrNoManifest>>
  ELSE IF \E i \in DOMAIN request.optionalBlocks :
            ~Includes(manifestBlockTypes(request.schema), request.optionalBlocks[i])
  THEN <<ErrInvalidBlocks>>
  ELSE IF IsBlank(request.topic) THEN <<ErrTopic>>
  ELSE IF request.keywords = <<>>
          \/ \A i \in DOMAIN request.keywords : IsBlank(request.keywords[i])
  THEN <<ErrKeywords>>
  ELSE <<>>

\* validateGenerationRequest(request).errors
validateGenerationRequest(request) ==
  IF ~request.schema.present \/ ~request.schema.hasTypes
  THEN <<ErrNoManifest>>
  ELSE LET types == manifestBlockTypes(request.schema)
           invalidBlocks ==
             {i \in DOMAIN request.optionalBlocks : ~Includes(types, request.optionalBlocks[i])}
       IN  (IF invalidBlocks # {} THEN <<ErrInvalidBlocks>> ELSE <<>>)
           \o (IF IsBlank(request.topic) THEN <<ErrTopic>> ELSE <<>>)
           \o (IF request.keywords = <<>>
                  \/ \A i \in DOMAIN request.keywords : IsBlank(request.keywords[i])
               THEN <<ErrKeywords>> ELSE <<>>)

(***************************************************************************)
(* Reply text.  A text is a sequence of tokens [c |-> class, a |-> atom]:  *)
(* the six JSON punctuation characters, "ws" (a run of white space),       *)
(* "fence" (```), "json" (the language tag), "word" (a run of \w           *)
(* characters of prose), "punct" (any other character) and "atom" (a JSON  *)
(* scalar literal, a carrying its value).                                  *)
(***************************************************************************)
Tok(c) == [c |-> c, a |-> Undef]

Atom(x) == [c |-> "atom", a |-> x]

\* [\w\s]
IsWordOrSpace(tk) ==
  \/ tk.c \in {"ws", "word", "json"}
  \/ tk.c = "atom" /\ tk.a.k \in {"num", "bool", "null"}

\* an order of the property names of an object (insertion order is not kept
\* by the model; no modelled result depends on it)
RECURSIVE KeySeq(_)
KeySeq(ks) ==
  IF ks = {} THEN <<>>
  ELSE LET x == CHOOSE y \in ks : TRUE IN <<x>> \o KeySeq(ks \ {x})

\* JSON.stringify(value)
RECURSIVE Stringify(_)
Stringify(x) ==
  CASE x.k = "arr" ->
         LET RECURSIVE Elems(_)
             Elems(i) ==
               IF i > Len(x.v) THEN <<>>
               ELSE (IF i > 1 THEN <<Tok(",")>> ELSE <<>>)
                    \o Stringify(x.v[i]) \o Elems(i + 1)
         IN  <<Tok("[")>> \o Elems(1) \o <<Tok("]")>>
    [] x.k = "obj" ->
         LET ks == KeySeq(DOMAIN x.v)
             RECURSIVE Members(_)
             Members(i) ==
               IF i > Len(ks) THEN <<>>
               ELSE (IF i > 1 THEN <<Tok(",")>> ELSE <<>>)
                    \o <<Atom(Str(ks[i])), Tok(":")>> \o Stringify(x.v[ks[i]])
                    \o Members(i + 1)
         IN  <<Tok("{")>> \o Members(1) \o <<Tok("}")>>
    [] OTHER -> <<Atom(x)>>

RECURSIVE SkipWs(_, _)
SkipWs(t, i) == IF i <= Len(t) /\ t[i].c = "ws" THEN SkipWs(t, i + 1) ELSE i

ParseFail == [ok |-> FALSE, val |-> Undef, pos |-> 0]

ParseOk(x, p) == [ok |-> TRUE, val |-> x, pos |-> p]

\* the name of a property written as a string literal
KeyOf(a) == IF a.v = <<>> THEN "" ELSE a.v[1]

\* the JSON grammar: value, then the members of an object, then the elements
\* of an array; pos is the index after the text consumed
RECURSIVE ParseValue(_, _), ParseMembers(_, _, _), ParseElements(_, _, _)
ParseValue(t, i) ==
  LET j == SkipWs(t, i) IN
  IF j > Len(t) THEN ParseFail
  ELSE CASE t[j].c = "atom" -> ParseOk(t[j].a, j + 1)
         [] t[j].c = "{" ->
              LET j2 == SkipWs(t, j + 1) IN
              IF j2 <= Len(t) /\ t[j2].c = "}" THEN ParseOk(EmptyObj, j2 + 1)
              ELSE ParseMembers(t, j2, EmptyObj)
         [] t[j].c = "[" ->
              LET j2 == SkipWs(t, j + 1) IN
              IF j2 <= Len(t) /\ t[j2].c = "]" THEN ParseOk(JArr(<<>>), j2 + 1)
              ELSE ParseElements(t, j2, <<>>)
         [] OTHER -> ParseFail

ParseMembers(t, i, acc) ==
  LET j == SkipWs(t, i) IN
  IF j > Len(t) \/ t[j].c # "atom" \/ t[j].a.k # "str" THEN ParseFail
  ELSE LET c == SkipWs(t, j + 1) IN
       IF c > Len(t) \/ t[c].c # ":" THEN ParseFail
       ELSE LET r == ParseValue(t, c + 1) IN
            IF ~r.ok THEN ParseFail
            ELSE LET e == SkipWs(t, r.pos)
                     acc2 == Put(acc, KeyOf(t[j].a), r.val)
                 IN  IF e > Len(t) THEN ParseFail
                     ELSE CASE t[e].c = "}" -> ParseOk(acc2, e + 1)
                            [] t[e].c = "," -> ParseMembers(t, e + 1, acc2)
                            [] OTHER -> ParseFail

ParseElements(t, i, acc) ==
  LET r == ParseValue(t, i) IN
  IF ~r.ok THEN ParseFail
  ELSE LET e == SkipWs(t, r.pos)
           acc2 == Append(acc, r.val)
       IN  IF e > Len(t) THEN ParseFail
           ELSE CASE t[e].c = "]" -> ParseOk(JArr(acc2), e + 1)
                  [] t[e].c = "," -> ParseElements(t, e + 1, acc2)
                  [] OTHER -> ParseFail

\* JSON.parse(text): ok = FALSE models the SyntaxError
JSONParse(t) ==
  LET r == ParseValue(t, 1) IN
  IF r.ok /\ SkipWs(t, r.pos) > Len(t) THEN [ok |-> TRUE, val |-> r.val]
  ELSE [ok |-> FALSE, val |-> Undef]

\* JSON.parse(JSON.stringify(blk))
DeepCopy(x) == JSONParse(Stringify(x)).val

(***************************************************************************)
(* The extraction cascade of generateContent                               *)
(***************************************************************************)
SetMin(S) == CHOOSE x \in S : \A y \in S : x <= y

SetMax(S) == CHOOSE x \in S : \A y \in S : x >= y

\* nesting depth the boundary regular expression can follow:
\* \{(?:[^{}]|{(?:[^{}]|{[^{}]*})*})*\}
MaxRegexDepth == 3

\* after the fence at i: optional language tag, white space, then '{'
FenceBody(t, i) ==
  LET j == IF i + 1 <= Len(t) /\ t[i + 1].c = "json" THEN i + 2 ELSE i + 1
      b == SkipWs(t, j)
  IN  IF b <= Len(t) /\ t[b].c = "{" THEN b ELSE 0

\* the '}' after which only white space separates from a closing fence
FenceEnds(t, b) ==
  {e \in (b + 1)..Len(t) :
     t[e].c = "}" /\ LET f == SkipWs(t, e + 1) IN f <= Len(t) /\ t[f].c = "fence"}

\* content.match(/```(?:json)?\s*(\{[\s\S]*\})\s*```/i): group 1 of the
\* leftmost match, the greedy body running to the last admissible '}'
codeBlockMatch(t) ==
  LET starts == {i \in DOMAIN t : t[i].c = "fence" /\ FenceBody(t, i) # 0
                                  /\ FenceEnds(t, FenceBody(t, i)) # {}}
  IN  IF starts = {} THEN [found |-> FALSE, group |-> <<>>]
      ELSE LET b == FenceBody(t, SetMin(starts)) IN
           [found |-> TRUE, group |-> SubSeq(t, b, SetMax(FenceEnds(t, b)))]

\* index of the '}' closing the brace opened before i, 0 when the text ends
\* first or the nesting exceeds what the expression follows
RECURSIVE ScanClose(_, _, _)
ScanClose(t, i, depth) ==
  IF i > Len(t) THEN 0
  ELSE CASE t[i].c = "{" ->
              IF depth + 1 > MaxRegexDepth THEN 0 ELSE ScanClose(t, i + 1, depth + 1)
         [] t[i].c = "}" -> IF depth = 1 THEN i ELSE ScanClose(t, i + 1, depth - 1)
         [] OTHER -> ScanClose(t, i + 1, depth)

\* content.match(/\{(?:[^{}]|{(?:[^{}]|{[^{}]*})*})*\}/): the leftmost match
jsonMatch(t) ==
  LET starts == {i \in DOMAIN t : t[i].c = "{" /\ ScanClose(t, i + 1, 1) # 0}
  IN  IF starts = {} THEN [found |-> FALSE, group |-> <<>>]
      ELSE LET b == SetMin(starts) IN
           [found |-> TRUE, group |-> SubSeq(t, b, ScanClose(t, b + 1, 1))]

\* .replace(/```(?:json)?/gi, '')
StripFences(t) ==
  FilterIdx(t, {i \in DOMAIN t :
                  ~(\/ t[i].c = "fence"
                    \/ t[i].c = "json" /\ i > 1 /\ t[i - 1].c = "fence")}, 1)

\* .replace(/^\s*[\w\s]*?(?=\{)/, '')
RemoveBeforeFirstBrace(t) ==
  LET opens == {i \in DOMAIN t : t[i].c = "{"} IN
  IF opens = {} THEN t
  ELSE LET b == SetMin(opens) IN
       IF \A j \in 1..(b - 1) : IsWordOrSpace(t[j]) THEN SubSeq(t, b, Len(t)) ELSE t

\* .replace(/\}[\s\w]*$/, '}')
RemoveAfterLastBrace(t) ==
  LET closes == {i \in DOMAIN t : t[i].c = "}"} IN
  IF closes = {} THEN t
  ELSE LET e == SetMax(closes) IN
       IF \A j \in (e + 1)..Len(t) : IsWordOrSpace(t[j]) THEN SubSeq(t, 1, e) ELSE t

\* .trim() on a text
RECURSIVE TrimText(_)
TrimText(t) ==
  IF t # <<>> /\ t[1].c = "ws" THEN TrimText(Tail(t))
  ELSE IF t # <<>> /\ t[Len(t)].c = "ws" THEN TrimText(SubSeq(t, 1, Len(t) - 1))
  ELSE t

cleaned(t) == TrimText(RemoveAfterLastBrace(RemoveBeforeFirstBrace(StripFences(t))))

\* variant: no attempt is skipped because an earlier one succeeded
extractJson_everyStage(content) ==
  LET direct == JSONParse(content) IN
  IF direct.ok
  THEN [parsed |-> direct.val, successfulStrategy |-> "DIRECT_PARSE",
        tried |-> <<"DIRECT_PARSE">>]
  ELSE LET m2 == codeBlockMatch(content)
           r2 == IF m2.found THEN JSONParse(m2.group) ELSE [ok |-> FALSE, val |-> Undef]
           t2 == <<"DIRECT_PARSE">> \o (IF m2.found THEN <<"MARKDOWN_EXTRACTION">> ELSE <<>>)
           run3 == TRUE
           m3 == jsonMatch(content)
           r3 == IF run3 /\ m3.found THEN JSONParse(m3.group)
                 ELSE [ok |-> FALSE, val |-> Undef]
           t3 == t2 \o (IF run3 /\ m3.found THEN <<"BOUNDARY_DETECTION">> ELSE <<>>)
           p3 == IF r3.ok THEN r3.val ELSE r2.val
           run4 == TRUE
           r4 == IF run4 THEN JSONParse(cleaned(content)) ELSE [ok |-> FALSE, val |-> Undef]
           t4 == t3 \o (IF run4 THEN <<"CONTENT_CLEANING">> ELSE <<>>)
           p4 == IF r4.ok THEN r4.val ELSE p3
       IN  IF ~Truthy(p4)
           THEN [parsed |-> JObj([contentBlocks |-> JArr(<<>>)]),
                 successfulStrategy |-> "FALLBACK_EMPTY", tried |-> t4]
           ELSE [parsed |-> p4,
                 successfulStrategy |-> IF r4.ok THEN "CONTENT_CLEANING"
                                        ELSE IF r3.ok THEN "BOUNDARY_DETECTION"
                                        ELSE "MARKDOWN_EXTRACTION",
                 tried |-> t4]

\* the four attempts, in the order of the code; tried lists the strategies
\* whose JSON.parse was run, parsed the value handed on
extractJson(content) ==
  LET direct == JSONParse(content) IN
  IF direct.ok
  THEN [parsed |-> direct.val, successfulStrategy |-> "DIRECT_PARSE",
        tried |-> <<"DIRECT_PARSE">>]
  ELSE LET m2 == codeBlockMatch(content)
           r2 == IF m2.found THEN JSONParse(m2.group) ELSE [ok |-> FALSE, val |-> Undef]
           t2 == <<"DIRECT_PARSE">> \o (IF m2.found THEN <<"MARKDOWN_EXTRACTION">> ELSE <<>>)
           run3 == ~Truthy(r2.val)
           m3 == jsonMatch(content)
           r3 == IF run3 /\ m3.found THEN JSONParse(m3.group)
                 ELSE [ok |-> FALSE, val |-> Undef]
           t3 == t2 \o (IF run3 /\ m3.found THEN <<"BOUNDARY_DETECTION">> ELSE <<>>)
           p3 == IF r3.ok THEN r3.val ELSE r2.val
           run4 == ~Truthy(p3)
           r4 == IF run4 THEN JSONParse(cleaned(content)) ELSE [ok |-> FALSE, val |-> Undef]
           t4 == t3 \o (IF run4 THEN <<"CONTENT_CLEANING">> ELSE <<>>)
           p4 == IF r4.ok THEN r4.val ELSE p3
       IN  IF ~Truthy(p4)
           THEN [parsed |-> JObj([contentBlocks |-> JArr(<<>>)]),
                 successfulStrategy |-> "FALLBACK_EMPTY", tried |-> t4]
           ELSE [parsed |-> p4,
                 successfulStrategy |-> IF r4.ok THEN "CONTENT_CLEANING"
                                        ELSE IF r3.ok THEN "BOUNDARY_DETECTION"
                                        ELSE "MARKDOWN_EXTRACTION",
                 tried |-> t4]

\* Array.isArray(parsed?.contentBlocks) ? parsed.contentBlocks
\*   : Array.isArray(parsed) ? parsed : []
extractBlocks(parsed) ==
  IF ~IsNullish(parsed) /\ IsArray(Get(parsed, "contentBlocks"))
  THEN Get(parsed, "contentBlocks").v
  ELSE IF IsArray(parsed) THEN parsed.v
  ELSE <<>>

\* the block preview logged after extraction reads blocks[0]._type and every
\* b._type: a null entry raises a TypeError
previewThrows(blocks) ==
  blocks # <<>> /\ \E i \in DOMAIN blocks : IsNullish(blocks[i])

(***************************************************************************)
(* Field coercion                                                          *)
(***************************************************************************)
\* the name of a block type held in a string value ('' when it is no
\* one-word string, which names no manifest type)
TypeName(x) == IF x.k = "str" /\ Len(x.v) = 1 THEN x.v[1] ELSE ""

\* fieldName.startsWith('_'), over the property names that occur
SystemKeys == {"_type", "_key", "_ref", "_weak"}

\* expectedType.includes('array'), over the field type tags of the manifests
IncludesArray(tag) ==
  tag \in {"array of strings", "array of references", "array of Portable Text blocks"}

IncludesPortableText(tag) == tag = "array of Portable Text blocks"

IncludesStrings(tag) == tag = "array of strings"

\* fieldType.includes('references') || fieldType.includes('reference')
IncludesReference(tag) ==
  tag \in {"array of references", "Sanity image object with valid asset reference"}

\* decimal literals the replies use, with their values
NumberTable == ("0" :> 0) @@ ("7" :> 7) @@ ("42" :> 42)

NaN == [k |-> "nan", v |-> 0]

\* Number(s) for a string s: blank strings convert to 0
NumberOf(s) ==
  LET t == Trim(s) IN
  IF t = <<>> THEN JNum(0)
  ELSE IF Len(t) = 1 /\ t[1] \in DOMAIN NumberTable THEN JNum(NumberTable[t[1]])
  ELSE NaN

\* sequences joined with a separator
RECURSIVE Join(_, _)
Join(parts, sep) ==
  IF parts = <<>> THEN <<>>
  ELSE IF Len(parts) = 1 THEN parts[1]
  ELSE parts[1] \o sep \o Join(Tail(parts), sep)

\* String(value)
RECURSIVE ToStr(_)
ToStr(x) ==
  CASE x.k = "str" -> x.v
    [] x.k = "num" -> <<ToString(x.v)>>
    [] x.k = "bool" -> IF x.v THEN <<"true">> ELSE <<"false">>
    [] x.k = "null" -> <<"null">>
    [] x.k = "undef" -> <<"undefined">>
    [] x.k = "arr" ->
         Join([i \in DOMAIN x.v |-> IF IsNullish(x.v[i]) THEN <<>> ELSE ToStr(x.v[i])],
              <<",">>)
    [] OTHER -> <<"[object", " ", "Object]">>

\* .replace(/\s+/g, ' ')
RECURSIVE Collapse(_)
Collapse(s) ==
  IF Len(s) < 2 THEN s
  ELSE IF s[1] = " " /\ s[2] = " " THEN Collapse(Tail(s))
  ELSE <<s[1]>> \o Collapse(Tail(s))

\* v is mapped through its children: typeof v === 'object' && v?._type === 'block'
IsPTBlock(x) == x.k \in {"obj", "arr"} /\ Get(x, "_type") = Str("block")

\* (v.children || []).map(c => c.text).join('')
childrenText(x) ==
  LET ch == Get(x, "children") IN
  IF ~Truthy(ch) THEN <<>>
  ELSE Join([i \in DOMAIN ch.v |->
               LET tx == Get(ch.v[i], "text") IN
               IF IsNullish(tx) THEN <<>> ELSE ToStr(tx)], <<>>)

\* the TypeError cases of that expression: children that is no array has no
\* map; a null child has no text
childrenThrows(x) ==
  LET ch == Get(x, "children") IN
  /\ Truthy(ch)
  /\ \/ ~IsArray(ch)
     \/ \E i \in DOMAIN ch.v : IsNullish(ch.v[i])

\* _toPlainString(value) for an array value
_toPlainString(value) ==
  Trim(Collapse(Join([i \in DOMAIN value.v |->
                        IF IsPTBlock(value.v[i]) THEN childrenText(value.v[i])
                        ELSE ToStr(value.v[i])], <<" ">>)))

toPlainStringThrows(value) ==
  \E i \in DOMAIN value.v : IsPTBlock(value.v[i]) /\ childrenThrows(value.v[i])

NoFix == [fixed |-> FALSE, dropped |-> FALSE, value |-> Undef, threw |-> FALSE]

Fixed(x) == [fixed |-> TRUE, dropped |-> FALSE, value |-> x, threw |-> FALSE]

Dropped == [fixed |-> FALSE, dropped |-> TRUE, value |-> Undef, threw |-> FALSE]

FixThrew == [fixed |-> FALSE, dropped |-> FALSE, value |-> Undef, threw |-> TRUE]

\* the synthetic paragraph wrapped around a string
portableTextBlock(text) ==
  JObj([_type |-> Str("block"), _key |-> Str("block-generated"), style |-> Str("normal"),
        children |-> JArr(<<JObj([_type |-> Str("span"), _key |-> Str("span-generated"),
                                  text |-> text, marks |-> JArr(<<>>)])>>),
        markDefs |-> JArr(<<>>)])

\* variant: the 'string' case has no test for a value that is a string already
enforceFieldType_noStringTest(value, expectedType) ==
  IF expectedType = "string"
  THEN IF IsArray(value)
       THEN IF toPlainStringThrows(value) THEN FixThrew
            ELSE IF _toPlainString(value) # <<>> THEN Fixed(JStr(_toPlainString(value)))
            ELSE Dropped
       ELSE IF ~IsNullish(value) THEN Fixed(JStr(ToStr(value)))
       ELSE Dropped
  ELSE IF IncludesArray(expectedType)
  THEN IF ~IsArray(value)
       THEN IF IsStr(value) /\ IncludesPortableText(expectedType)
            THEN Fixed(JArr(<<portableTextBlock(value)>>))
            ELSE IF IncludesStrings(expectedType) THEN Fixed(JArr(<<JStr(ToStr(value))>>))
            ELSE Dropped
       ELSE NoFix
  ELSE IF expectedType = "number"
  THEN IF value.k = "num" THEN NoFix
       ELSE IF IsStr(value) /\ NumberOf(value.v) # NaN THEN Fixed(NumberOf(value.v))
       ELSE Dropped
  ELSE NoFix

\* enforceFieldType(fieldName, value, expectedType, ...)
enforceFieldType(value, expectedType) ==
  IF expectedType = "string"
  THEN IF IsArray(value)
       THEN IF toPlainStringThrows(value) THEN FixThrew
            ELSE IF _toPlainString(value) # <<>> THEN Fixed(JStr(_toPlainString(value)))
            ELSE Dropped
       ELSE IF IsStr(value) THEN NoFix
       ELSE IF ~IsNullish(value) THEN Fixed(JStr(ToStr(value)))
       ELSE Dropped
  ELSE IF IncludesArray(expectedType)
  THEN IF ~IsArray(value)
       THEN IF IsStr(value) /\ IncludesPortableText(expectedType)
            THEN Fixed(JArr(<<portableTextBlock(value)>>))
            ELSE IF IncludesStrings(expectedType) THEN Fixed(JArr(<<JStr(ToStr(value))>>))
            ELSE Dropped
       ELSE NoFix
  ELSE IF expectedType = "number"
  THEN IF value.k = "num" THEN NoFix
       ELSE IF IsStr(value) /\ NumberOf(value.v) # NaN THEN Fixed(NumberOf(value.v))
       ELSE Dropped
  ELSE NoFix

(***************************************************************************)
(* Reference sanitizers and block-specific repairers                       *)
(***************************************************************************)
\* { _type: 'reference', _ref, [_key], [_weak] } built from item
cleanRef(item) ==
  LET base == JObj([_type |-> Str("reference"), _ref |-> Get(item, "_ref")])
      withKey == IF Truthy(Get(item, "_key")) THEN Put(base, "_key", Get(item, "_key"))
                 ELSE base
  IN  IF Truthy(Get(item, "_weak")) THEN Put(withKey, "_weak", Get(item, "_weak"))
      ELSE withKey

\* an entry sanitizeReferenceOnlyArray keeps (either branch that pushes)
IsKeptReference(item) ==
  /\ ~(~Truthy(item) \/ TypeOf(item) # "object")
  /\ \/ /\ Get(item, "_type") = Str("reference")
        /\ IsStr(Get(item, "_ref")) /\ ~IsBlank(Get(item, "_ref").v)
     \/ Truthy(Get(item, "_ref")) /\ IsStr(Get(item, "_ref"))

\* sanitizeReferenceOnlyArray(value, ...)
sanitizeReferenceOnlyArray(value) ==
  IF ~IsArray(value) THEN [fixed |-> FALSE, value |-> Undef]
  ELSE LET keep == {i \in DOMAIN value.v : IsKeptReference(value.v[i])}
           kept == FilterIdx(value.v, keep, 1)
           validReferences == [i \in DOMAIN kept |-> cleanRef(kept[i])]
           droppedCount == Len(value.v) - Len(kept)
       IN  [fixed |-> Len(validReferences) # Len(value.v) \/ droppedCount > 0,
            value |-> JArr(validReferences)]

\* removeProblematicFields(obj, ['icon'], ...)
removeProblematicFields(obj, fieldsToRemove) ==
  JObj([f \in (DOMAIN obj.v) \ fieldsToRemove |-> obj.v[f]])

\* the placeholder record pushed into an empty faqItems
placeholderFaqItem ==
  JObj([_type |-> Str("faqItem"), _key |-> Str("faq-generated"),
        question |-> JStr(<<"Placeholder", " ", "spoergsmaal">>),
        answer |-> JArr(<<portableTextBlock(JStr(<<"FAQ-indhold", " ", "mangler.">>))>>)])

\* the filter predicate of fixFaqGroup: a valid inline faqItem
IsValidFaqItem(item) ==
  /\ ~(~Truthy(item) \/ TypeOf(item) # "object")
  /\ Get(item, "_type") = Str("faqItem")
  /\ IsStr(Get(item, "question"))
  /\ IsArray(Get(item, "answer"))

\* variant: no placeholder is pushed into an empty array
fixFaqGroup_noPlaceholder(block) ==
  LET items0 == IF IsArray(Get(block, "faqItems")) THEN Get(block, "faqItems").v ELSE <<>>
  IN  Put(block, "faqItems",
          JArr(FilterIdx(items0, {i \in DOMAIN items0 : IsValidFaqItem(items0[i])}, 1)))

\* fixFaqGroup(block, blockIndex): the block after the call
fixFaqGroup(block) ==
  LET items0 == IF IsArray(Get(block, "faqItems")) THEN Get(block, "faqItems").v ELSE <<>>
      kept == FilterIdx(items0, {i \in DOMAIN items0 : IsValidFaqItem(items0[i])}, 1)
      items == IF kept = <<>> THEN <<placeholderFaqItem>> ELSE kept
  IN  Put(block, "faqItems", JArr(items))

\* variant: the test on the first entry is left out
providerEntryBad_noFirstCheck(p, i) ==
  \/ TypeOf(p) # "object"
  \/ Get(p, "_type") # Str("reference")
  \/ ~Truthy(Get(p, "_ref"))
  \/ ~isValidProviderId(Get(p, "_ref"))

\* the predicate of providers.some(...) for entry p at index i (p not null)
providerEntryBad(p, i) ==
  \/ TypeOf(p) # "object"
  \/ Get(p, "_type") # Str("reference")
  \/ ~Truthy(Get(p, "_ref"))
  \/ ~isValidProviderId(Get(p, "_ref"))
  \/ (i = 1 /\ Get(p, "_ref") # Str(PROVIDER_WHITELIST[1]))

\* some() stops at the first entry for which the predicate is true; reading
\* p._type of a null entry reached before that raises a TypeError
fixProviderListThrows(block) ==
  LET ps == Get(block, "providers") IN
  /\ IsArray(ps)
  /\ \E i \in DOMAIN ps.v :
       /\ ps.v[i].k = "null"
       /\ \A j \in 1..(i - 1) : ~providerEntryBad(ps.v[j], j)

needsfix(block) ==
  LET ps == Get(block, "providers") IN
  \/ ~IsArray(ps)
  \/ ps.v = <<>>
  \/ \E i \in DOMAIN ps.v : providerEntryBad(ps.v[i], i)

\* the replacement array: PROVIDER_WHITELIST.slice(0, Math.min(4, length))
whitelistedRefs ==
  LET n == IF Len(PROVIDER_WHITELIST) < 4 THEN Len(PROVIDER_WHITELIST) ELSE 4 IN
  [i \in 1..n |-> JObj([_type |-> Str("reference"), _ref |-> Str(PROVIDER_WHITELIST[i]),
                        _key |-> Str("provider-generated")])]

\* fixProviderList(block, blockIndex): the block after the call
fixProviderList(block) ==
  IF needsfix(block) THEN Put(block, "providers", JArr(whitelistedRefs)) ELSE block

AllowedRefKeys == {"_type", "_ref", "_key", "_weak"}

\* variant: keys are removed only from an object already typed 'reference'
RECURSIVE sanitizeAllReferences_keysOnlyWhenTyped(_)
sanitizeAllReferences_keysOnlyWhenTyped(obj) ==
  IF TypeOf(obj) # "object" \/ obj.k = "null" THEN obj
  ELSE IF IsArray(obj)
  THEN JArr([i \in DOMAIN obj.v |-> sanitizeAllReferences_keysOnlyWhenTyped(obj.v[i])])
  ELSE IF Truthy(Get(obj, "_ref")) \/ Get(obj, "_type") = Str("reference")
  THEN LET o1 == IF Get(obj, "_type") = Str("reference") THEN Restrict(obj, AllowedRefKeys)
                 ELSE obj
           o2 == IF Truthy(Get(o1, "_ref")) /\ Get(o1, "_type") # Str("reference")
                 THEN Put(o1, "_type", Str("reference")) ELSE o1
       IN  IF Truthy(Get(o2, "_ref")) /\ ~IsStr(Get(o2, "_ref")) THEN Del(o2, "_ref")
           ELSE o2
  ELSE JObj([f \in DOMAIN obj.v |-> sanitizeAllReferences_keysOnlyWhenTyped(obj.v[f])])

\* sanitizeAllReferences(obj, path): the graph after the call
RECURSIVE sanitizeAllReferences(_)
sanitizeAllReferences(obj) ==
  IF TypeOf(obj) # "object" \/ obj.k = "null" THEN obj
  ELSE IF IsArray(obj) THEN JArr([i \in DOMAIN obj.v |-> sanitizeAllReferences(obj.v[i])])
  ELSE IF Truthy(Get(obj, "_ref")) \/ Get(obj, "_type") = Str("reference")
  THEN LET o1 == Restrict(obj, AllowedRefKeys)
           o2 == IF Truthy(Get(o1, "_ref")) /\ Get(o1, "_type") # Str("reference")
                 THEN Put(o1, "_type", Str("reference")) ELSE o1
       IN  IF Truthy(Get(o2, "_ref")) /\ ~IsStr(Get(o2, "_ref")) THEN Del(o2, "_ref")
           ELSE o2
  ELSE JObj([f \in DOMAIN obj.v |-> sanitizeAllReferences(obj.v[f])])

\* a sum over a finite set of indices or keys
RECURSIVE Sum(_, _)
Sum(f, S) ==
  IF S = {} THEN 0
  ELSE LET x == CHOOSE y \in S : TRUE IN f[x] + Sum(f, S \ {x})

\* sanitizeAllReferences(obj, path): the count it returns
RECURSIVE sanitizedCount(_)
sanitizedCount(obj) ==
  IF TypeOf(obj) # "object" \/ obj.k = "null" THEN 0
  ELSE IF IsArray(obj)
  THEN Sum([i \in DOMAIN obj.v |-> sanitizedCount(obj.v[i])], DOMAIN obj.v)
  ELSE IF Truthy(Get(obj, "_ref")) \/ Get(obj, "_type") = Str("reference")
  THEN (IF DOMAIN obj.v \ AllowedRefKeys # {} THEN 1 ELSE 0)
       + (IF Truthy(Get(obj, "_ref")) /\ Get(obj, "_type") # Str("reference") THEN 1 ELSE 0)
       + (IF Truthy(Get(obj, "_ref")) /\ ~IsStr(Get(obj, "_ref")) THEN 1 ELSE 0)
  ELSE Sum([f \in DOMAIN obj.v |-> sanitizedCount(obj.v[f])], DOMAIN obj.v)

(***************************************************************************)
(* applyAutoFixes                                                          *)
(***************************************************************************)
\* the manifest entry of a block type, if any (the last one of that name)
SpecIndex(schema, name) ==
  LET idx == {i \in DOMAIN schema.contentBlockTypes : schema.contentBlockTypes[i].type = name}
  IN  IF idx = {} THEN 0 ELSE SetMax(idx)

\* extractSchemaFieldTypes(schema)[name] is defined
hasSchemaFieldTypes(schema, name) ==
  /\ schema.present /\ schema.hasTypes /\ name # ""
  /\ \E i \in DOMAIN schema.contentBlockTypes :
       schema.contentBlockTypes[i].type = name /\ schema.contentBlockTypes[i].hasFieldTypes

\* extractSchemaFieldTypes(schema)[name] || {}
extractSchemaFieldTypes(schema, name) ==
  IF hasSchemaFieldTypes(schema, name)
  THEN schema.contentBlockTypes[
         SetMax({i \in DOMAIN schema.contentBlockTypes :
                   schema.contentBlockTypes[i].type = name
                   /\ schema.contentBlockTypes[i].hasFieldTypes})].fieldTypes
  ELSE NoFields

\* extractReferenceOnlyFields(schema)[name] || []
extractReferenceOnlyFields(schema, name) ==
  IF ~(schema.present /\ schema.hasTypes) \/ SpecIndex(schema, name) = 0 THEN {}
  ELSE LET sp == schema.contentBlockTypes[SpecIndex(schema, name)] IN
       IF ~sp.hasFieldTypes THEN {}
       ELSE {f \in DOMAIN sp.fieldTypes : IncludesReference(sp.fieldTypes[f])}

\* the key written when _key is missing or blank
generatedKey == Str("generated-key")

\* universal safeguards: _key, icon, videoSection.customThumbnail
universalSafeguards(b) ==
  LET key == Get(b, "_key")
      b1 == IF ~Truthy(key) \/ ~IsStr(key) \/ IsBlank(key.v)
            THEN Put(b, "_key", generatedKey) ELSE b
      b2 == removeProblematicFields(b1, {"icon"})
  IN  IF Get(b2, "_type") = Str("videoSection") /\ HasKey(b2, "customThumbnail")
      THEN Del(b2, "customThumbnail") ELSE b2

\* the fields enforceFieldType is called for
enforcedFields(b, blockSchema) ==
  {f \in DOMAIN b.v : f \notin SystemKeys /\ f \in DOMAIN blockSchema}

fieldEnforcementThrows(b, blockSchema) ==
  \E f \in enforcedFields(b, blockSchema) : enforceFieldType(b.v[f], blockSchema[f]).threw

\* the block after the field type enforcement loop
fieldEnforcement(b, blockSchema) ==
  LET res == [f \in enforcedFields(b, blockSchema) |-> enforceFieldType(b.v[f], blockSchema[f])]
      kept == {f \in DOMAIN b.v : ~(f \in DOMAIN res /\ res[f].dropped)}
  IN  JObj([f \in kept |-> IF f \in DOMAIN res /\ res[f].fixed THEN res[f].value ELSE b.v[f]])

\* the block after the reference-only array loop
referenceOnlyValidation(b, refFields) ==
  JObj([f \in DOMAIN b.v |->
          IF f \in refFields /\ sanitizeReferenceOnlyArray(b.v[f]).fixed
          THEN sanitizeReferenceOnlyArray(b.v[f]).value ELSE b.v[f]])

\* { ...item }
Spread(item) ==
  IF IsArray(item) THEN JObj([f \in {ToString(i - 1) : i \in DOMAIN item.v} |->
                                item.v[CHOOSE i \in DOMAIN item.v : ToString(i - 1) = f]])
  ELSE item

\* the nested clean-up of valueProposition.items / featureList.features: the
\* cleaned array is stored only when entries were dropped
cleanNested(b, field) ==
  LET arr == Get(b, field).v
      keep == {i \in DOMAIN arr : ~(~Truthy(arr[i]) \/ TypeOf(arr[i]) # "object")}
      kept == FilterIdx(arr, keep, 1)
      cleanedItems == [i \in DOMAIN kept |-> removeProblematicFields(Spread(kept[i]), {"icon"})]
  IN  IF Len(cleanedItems) # Len(arr) THEN Put(b, field, JArr(cleanedItems)) ELSE b

\* variant: the callback works on the extracted block itself
workingCopy_alias(blk) == [val |-> blk, own |-> FALSE]

\* const b = JSON.parse(JSON.stringify(blk)): the object the callback writes
\* to; own tells that it shares nothing with the extracted block
workingCopy(blk) == [val |-> DeepCopy(blk), own |-> TRUE]

\* the private copy of a kept block, after the universal safeguards, the
\* field type enforcement and the reference-only array validation
beforeSpecialCases(blk, schema) ==
  LET b0 == universalSafeguards(workingCopy(blk).val)
      name == TypeName(Get(b0, "_type"))
  IN  referenceOnlyValidation(fieldEnforcement(b0, extractSchemaFieldTypes(schema, name)),
                              extractReferenceOnlyFields(schema, name))

\* faqGroup and providerList repairers, then the nested clean-ups
specialCases(b) ==
  LET b1 == IF Get(b, "_type") = Str("faqGroup") THEN fixFaqGroup(b) ELSE b
      b2 == IF Get(b1, "_type") = Str("providerList") THEN fixProviderList(b1) ELSE b1
      b3 == IF Get(b2, "_type") = Str("valueProposition") /\ IsArray(Get(b2, "items"))
            THEN cleanNested(b2, "items") ELSE b2
  IN  IF Get(b3, "_type") = Str("featureList") /\ IsArray(Get(b3, "features"))
      THEN cleanNested(b3, "features") ELSE b3

\* the callback of contentBlocks.map returns null
isDroppedBlock(blk) ==
  \/ ~Truthy(blk) \/ TypeOf(blk) # "object"
  \/ ~Truthy(Get(blk, "_type")) \/ ~IsStr(Get(blk, "_type"))

\* the callback raises
fixBlockThrows(blk, schema) ==
  /\ ~isDroppedBlock(blk)
  /\ LET b0 == universalSafeguards(workingCopy(blk).val)
         name == TypeName(Get(b0, "_type"))
     IN  \/ fieldEnforcementThrows(b0, extractSchemaFieldTypes(schema, name))
         \/ /\ ~fieldEnforcementThrows(b0, extractSchemaFieldTypes(schema, name))
            /\ Get(b0, "_type") = Str("providerList")
            /\ fixProviderListThrows(beforeSpecialCases(blk, schema))

\* the callback's result for a kept block
fixBlock(blk, schema) == specialCases(beforeSpecialCases(blk, schema))

applyAutoFixesThrows(contentBlocks, schema) ==
  \E i \in DOMAIN contentBlocks : fixBlockThrows(contentBlocks[i], schema)

\* indices of the input blocks that survive .filter(Boolean)
keptBlocks(contentBlocks) ==
  {i \in DOMAIN contentBlocks : ~isDroppedBlock(contentBlocks[i])}

\* variant: the kept blocks come out in the opposite order
applyAutoFixes_reordered(contentBlocks, schema) ==
  LET kept == FilterIdx(contentBlocks, keptBlocks(contentBlocks), 1) IN
  [i \in DOMAIN kept |-> sanitizeAllReferences(fixBlock(kept[Len(kept) + 1 - i], schema))]

\* applyAutoFixes(contentBlocks, schema): map, filter, deep sanitization
applyAutoFixes(contentBlocks, schema) ==
  LET kept == FilterIdx(contentBlocks, keptBlocks(contentBlocks), 1) IN
  [i \in DOMAIN kept |-> sanitizeAllReferences(fixBlock(kept[i], schema))]

\* the array handed to applyAutoFixes as it is once the call has returned:
\* every write of the callback and of the deep sanitization goes to the
\* callback's object b, which the extracted block sees only if b is that block
inputAfterFixes(contentBlocks, schema) ==
  [i \in DOMAIN contentBlocks |->
     IF isDroppedBlock(contentBlocks[i]) \/ workingCopy(contentBlocks[i]).own
     THEN contentBlocks[i]
     ELSE sanitizeAllReferences(fixBlock(contentBlocks[i], schema))]

(***************************************************************************)
(* Compliance validator                                                    *)
(***************************************************************************)
Warn(index, kind, field) == [block |-> index, kind |-> kind, field |-> field]

\* warnings of one array item under validateFieldType
itemWarnings(item, fieldType, isProviders, itemIndex, index, field) ==
  CASE fieldType = "array of strings" ->
         (IF ~IsStr(item) THEN <<Warn(index, "should be a string", field)>> ELSE <<>>)
         \o (IF TypeOf(item) = "object" /\ Get(item, "_type") = Str("block")
             THEN <<Warn(index, "contains Portable Text block", field)>> ELSE <<>>)
    [] fieldType = "array of references" ->
         IF IsStr(item) THEN <<Warn(index, "should be a reference object, not a string", field)>>
         ELSE IF TypeOf(item) # "object" \/ Get(item, "_type") # Str("reference")
                 \/ ~Truthy(Get(item, "_ref"))
         THEN <<Warn(index, "should be a reference object", field)>>
         ELSE IF isProviders
         THEN (IF itemIndex = 1 /\ Get(item, "_ref") # Str(PROVIDER_WHITELIST[1])
               THEN <<Warn(index, "First provider must be Vindstod", field)>> ELSE <<>>)
              \o (IF ~isValidProviderId(Get(item, "_ref"))
                  THEN <<Warn(index, "not in whitelist", field)>> ELSE <<>>)
         ELSE <<>>
    [] OTHER ->
         IF TypeOf(item) # "object" \/ Get(item, "_type") # Str("block")
         THEN <<Warn(index, "should be a Portable Text block", field)>> ELSE <<>>

\* validateFieldType(fieldName, fieldValue, fieldType, blockType, blockIndex, warnings):
\* the warnings it pushes
validateFieldType(field, fieldValue, fieldType, blockType, index) ==
  CASE fieldType \in {"array of strings", "array of references",
                      "array of Portable Text blocks"} ->
         IF ~IsArray(fieldValue) THEN <<Warn(index, "should be an array", field)>>
         ELSE Join([i \in DOMAIN fieldValue.v |->
                      itemWarnings(fieldValue.v[i], fieldType,
                                   blockType = Str("providerList") /\ field = "providers",
                                   i, index, field)], <<>>)
    [] fieldType = "icon.manager" ->
         IF TypeOf(fieldValue) # "object" \/ Get(fieldValue, "_type") # Str("icon.manager")
            \/ ~Truthy(Get(fieldValue, "icon"))
         THEN <<Warn(index, "must be an icon.manager object", field)>> ELSE <<>>
    [] fieldType \in {"image", "image?", "Sanity image object with valid asset reference"} ->
         IF TypeOf(fieldValue) # "object" \/ ~Truthy(Get(fieldValue, "asset"))
            \/ ~Truthy(Get(Get(fieldValue, "asset"), "_ref"))
         THEN <<Warn(index, "must be a Sanity image object", field)>> ELSE <<>>
    [] fieldType = "number" ->
         IF fieldValue.k # "num" THEN <<Warn(index, "should be a number", field)>> ELSE <<>>
    [] fieldType = "string" ->
         IF ~IsStr(fieldValue) THEN <<Warn(index, "should be a string", field)>> ELSE <<>>
    [] OTHER -> <<>>

\* item._type is read on a null item of an array field: TypeError
validateFieldTypeThrows(fieldValue, fieldType) ==
  /\ fieldType \in {"array of strings", "array of references",
                    "array of Portable Text blocks"}
  /\ IsArray(fieldValue)
  /\ \E i \in DOMAIN fieldValue.v : fieldValue.v[i].k = "null"

\* the fields of a block whose declared type is validated
typedFields(block, sp) ==
  IF ~sp.hasFieldTypes THEN {}
  ELSE {f \in DOMAIN sp.fieldTypes : ~IsNullish(Get(block, f))}

\* variant: a block of a type the manifest does not list is passed over
\* without a warning
blockWarnings_unknownTypeAccepted(block, index, schema) ==
  IF ~Truthy(Get(block, "_type")) THEN <<Warn(index, "Missing _type field", "")>>
  ELSE IF ~Truthy(Get(block, "_key")) THEN <<Warn(index, "Missing _key field", "")>>
  ELSE <<>>

\* warnings of one block
blockWarnings(block, index, schema) ==
  IF ~Truthy(Get(block, "_type")) THEN <<Warn(index, "Missing _type field", "")>>
  ELSE (IF ~Truthy(Get(block, "_key")) THEN <<Warn(index, "Missing _key field", "")>>
        ELSE <<>>)
       \o (IF SpecIndex(schema, TypeName(Get(block, "_type"))) = 0
              \/ ~IsStr(Get(block, "_type"))
           THEN <<Warn(index, "Invalid _type", "")>>
           ELSE LET sp == schema.contentBlockTypes[SpecIndex(schema, TypeName(Get(block, "_type")))]
                    req == sp.requiredFields
                    ft == KeySeq(typedFields(block, sp))
                    enums == KeySeq(IF sp.hasFieldEnums
                                    THEN {f \in DOMAIN sp.fieldEnums : ~IsNullish(Get(block, f))}
                                    ELSE {})
                IN  Join([i \in DOMAIN req |->
                            IF ~HasKey(block, req[i]) \/ IsNullish(Get(block, req[i]))
                               \/ Get(block, req[i]) = JStr(<<>>)
                            THEN <<Warn(index, "Missing required field", req[i])>>
                            ELSE <<>>], <<>>)
                    \o Join([i \in DOMAIN ft |->
                               validateFieldType(ft[i], Get(block, ft[i]), sp.fieldTypes[ft[i]],
                                                 Get(block, "_type"), index)], <<>>)
                    \o Join([i \in DOMAIN enums |->
                               IF \E j \in DOMAIN sp.fieldEnums[enums[i]] :
                                    Get(block, enums[i]) = Str(sp.fieldEnums[enums[i]][j])
                               THEN <<>>
                               ELSE <<Warn(index, "must be one of", enums[i])>>], <<>>))

blockValidationThrows(block, schema) ==
  /\ Truthy(Get(block, "_type")) /\ IsStr(Get(block, "_type"))
  /\ SpecIndex(schema, TypeName(Get(block, "_type"))) # 0
  /\ LET sp == schema.contentBlockTypes[SpecIndex(schema, TypeName(Get(block, "_type")))]
     IN  \E f \in typedFields(block, sp) : validateFieldTypeThrows(Get(block, f), sp.fieldTypes[f])

\* validateContentBlocks(contentBlocks, schema).warnings
validateContentBlocks(contentBlocks, schema) ==
  IF ~schema.present \/ ~schema.hasTypes
  THEN <<Warn(0, "Schema manifest not available for validation", "")>>
  ELSE Join([i \in DOMAIN contentBlocks |-> blockWarnings(contentBlocks[i], i - 1, schema)],
            <<>>)

validateContentBlocksThrows(contentBlocks, schema) ==
  /\ schema.present /\ schema.hasTypes
  /\ \E i \in DOMAIN contentBlocks : blockValidationThrows(contentBlocks[i], schema)

(***************************************************************************)
(* Inputs: requests, provider outcomes and reply texts                     *)
(***************************************************************************)
Topics == {<<>>, <<" ">>, <<"elpriser">>}

KeywordLists == {<<>>, << <<" ">> >>, << <<"el">>, <<>> >>}

OptionalBlockLists == {<<>>, <<"faqGroup">>, <<"faqGroup", "bogusBlock">>}

Span(text) == JObj([_type |-> Str("span"), _key |-> Str("s1"), text |-> text,
                    marks |-> JArr(<<>>)])

\* a paragraph without children and one with a text run
PTShallow == JObj([_type |-> Str("block"), _key |-> Str("b1")])

PTDeep == JObj([_type |-> Str("block"), _key |-> Str("b2"),
                children |-> JArr(<<Span(Str("tekst"))>>)])

Ref(id) == JObj([_type |-> Str("reference"), _ref |-> Str(id)])

Hero == JObj([_type |-> Str("hero"), _key |-> Str("h1"), headline |-> Str("X"),
              subheadline |-> Str("Y")])

HeroNoKey == JObj([_type |-> Str("hero"), headline |-> Str("X"), subheadline |-> Str("Y"),
                   icon |-> Str("mdi")])

HeroArrayHeadline == JObj([_type |-> Str("hero"), _key |-> Str("h1"),
                           headline |-> JArr(<<PTDeep>>), subheadline |-> JNum(7)])

HeroNoSub == JObj([_type |-> Str("hero"), _key |-> Str("h1"), headline |-> Str("X")])

Page == JObj([_type |-> Str("pageSection"), _key |-> Str("p1"), title |-> Str("T"),
              content |-> JArr(<<PTShallow>>)])

PageDeep == JObj([_type |-> Str("pageSection"), _key |-> Str("p1"), title |-> Str("T"),
                  content |-> JArr(<<PTDeep>>)])

PageStringContent == JObj([_type |-> Str("pageSection"), _key |-> Str("p1"),
                           title |-> Str("T"), content |-> Str("tekst")])

PageNullItem == JObj([_type |-> Str("pageSection"), _key |-> Str("p1"), title |-> Str("T"),
                      content |-> JArr(<<JNull>>)])

FaqItem == JObj([_type |-> Str("faqItem"), _key |-> Str("f1"), question |-> Str("Q"),
                 answer |-> JArr(<<PTShallow>>)])

FaqItemWithRef == JObj([_type |-> Str("faqItem"), _key |-> Str("f2"), question |-> Str("Q"),
                        answer |-> JArr(<<PTShallow>>), _ref |-> Str("faq-doc")])

FaqItemNoAnswer == JObj([_type |-> Str("faqItem"), _key |-> Str("f3"), question |-> Str("Q")])

Faq(items) == JObj([_type |-> Str("faqGroup"), _key |-> Str("g1"), title |-> Str("FAQ"),
                    faqItems |-> items])

FaqNoItems == JObj([_type |-> Str("faqGroup"), _key |-> Str("g1"), title |-> Str("FAQ")])

Providers(ps) == JObj([_type |-> Str("providerList"), _key |-> Str("l1"),
                       title |-> Str("Udbydere"), providers |-> ps])

ProvidersAbsent == JObj([_type |-> Str("providerList"), _key |-> Str("l1"),
                         title |-> Str("Udbydere")])

ProvidersStrayRef == JObj([_type |-> Str("providerList"), _key |-> Str("l1"),
                           title |-> Str("Udbydere"), _ref |-> Str("x"),
                           providers |-> JArr(<<Ref("vindstod-id")>>)])

InlineProvider == JObj([_type |-> Str("provider"), name |-> Str("Norlys")])

RefExtra == JObj([_type |-> Str("reference"), _ref |-> Str("andel-id"),
                  name |-> Str("Andel")])

Unknown == JObj([_type |-> Str("bogusBlock"), _key |-> Str("u1"), title |-> Str("T")])

NoType == JObj([_key |-> Str("n1"), title |-> Str("T")])

Graph(region) == JObj([_type |-> Str("livePriceGraph"), _key |-> Str("c1"),
                       title |-> Str("Pris"), apiRegion |-> region])

Doc(blocks) == JObj([contentBlocks |-> JArr(blocks)])

\* the block arrays the replies carry
Documents == <<
  <<Hero, Page>>,
  <<Page, Hero>>,
  <<>>,
  <<Hero>>,
  <<HeroNoKey, PageDeep>>,
  <<HeroArrayHeadline, PageStringContent>>,
  <<HeroNoSub, Page>>,
  <<Hero, PageNullItem>>,
  <<Hero, Page, Faq(JArr(<<Ref("a"), Ref("b")>>))>>,
  <<Hero, Page, Faq(JArr(<<FaqItem, Ref("a"), JNull, FaqItemNoAnswer>>))>>,
  <<Hero, Page, Faq(JArr(<<FaqItemWithRef>>))>>,
  <<Hero, Page, Faq(JArr(<<>>))>>,
  <<Hero, Page, Faq(Str("none")), FaqNoItems>>,
  <<Hero, Page, Providers(JArr(<<Str("Vindstod"), Str("Norlys"), Str("NRGi")>>))>>,
  <<Hero, Page, Providers(JArr(<<Ref("vindstod-id"), RefExtra>>))>>,
  <<Hero, Page, Providers(JArr(<<Ref("andel-id"), Ref("vindstod-id")>>))>>,
  <<Hero, Page, Providers(JArr(<<Ref("vindstod-id"), Ref("other-id")>>))>>,
  <<Hero, Page, Providers(JArr(<<InlineProvider>>)), ProvidersAbsent>>,
  <<Hero, Page, Providers(JArr(<<>>)), Providers(Str("Vindstod"))>>,
  <<Hero, Page, Providers(JArr(<<Ref("vindstod-id"), JNull>>))>>,
  <<Hero, Page, Providers(JArr(<<JNull>>))>>,
  <<Hero, Page, ProvidersStrayRef>>,
  <<Hero, Page, Unknown>>,
  <<Unknown>>,
  <<NoType, JNum(7), Str("hero")>>,
  <<Hero, Page, NoType>>,
  <<JNull, Hero, Page>>,
  <<Hero, Page, Graph(Str("DK1"))>>,
  <<Hero, Page, Graph(Str("DK9"))>>,
  <<Hero, Page, Providers(JArr(<<Ref("vindstod-id"), Ref("andel-id"), Ref("norlys-id"),
                                 Ref("nrgi-id"), Ref("andel-id")>>))>>
>>

Prose == <<Tok("word"), Tok("ws"), Tok("word")>>

\* reply texts: every document as bare JSON, some wrapped in a fence or in
\* prose, a bare array, and texts that hold no JSON
Replies ==
  [i \in DOMAIN Documents |-> Stringify(Doc(Documents[i]))]
  \o << <<Tok("fence"), Tok("json"), Tok("ws")>> \o Stringify(Doc(Documents[1]))
          \o <<Tok("ws"), Tok("fence")>>,
        <<Tok("fence"), Tok("json"), Tok("ws")>> \o Stringify(Doc(Documents[3]))
          \o <<Tok("ws"), Tok("fence")>>,
        Prose \o <<Tok(":"), Tok("ws")>> \o Stringify(Doc(Documents[1]))
          \o <<Tok("ws")>> \o Prose \o <<Tok("punct")>>,
        Prose \o <<Tok("ws")>> \o Stringify(Doc(Documents[4])) \o <<Tok("ws")>> \o Prose,
        Stringify(JArr(Documents[1])),
        Prose \o <<Tok("ws")>> \o Prose,
        <<>>,
        <<Tok("{"), Atom(Str("contentBlocks")), Tok(":"), Tok("[")>>,
        <<Tok("}"), Tok("ws"), Tok("word")>>,
        <<Atom(JNull)>>,
        <<Atom(JNum(0))>>,
        Prose \o <<Tok("ws")>> \o Stringify(Doc(Documents[5])) \o <<Tok("ws")>> \o Prose,
        <<Tok("fence"), Tok("ws"), Tok("["), Tok("]"), Tok("ws"), Tok("fence")>>,
        <<Tok("fence"), Tok("json"), Tok("ws"), Atom(JNull), Tok("ws"), Tok("fence")>> >>

\* the error axios rejects with: an HTTP error status, no response, a timeout
\* (with or without the request object), anything else with or without message
ProviderErrors == {
  [response |-> TRUE, request |-> TRUE, code |-> "ERR_BAD_RESPONSE", message |-> "status 500"],
  [response |-> FALSE, request |-> TRUE, code |-> "ERR_NETWORK", message |-> "Network Error"],
  [response |-> FALSE, request |-> TRUE, code |-> "ECONNABORTED", message |-> "timeout"],
  [response |-> FALSE, request |-> FALSE, code |-> "ECONNABORTED", message |-> "timeout"],
  [response |-> FALSE, request |-> FALSE, code |-> "", message |-> "bad config"],
  [response |-> FALSE, request |-> FALSE, code |-> "", message |-> ""] }

\* an exception raised by the pipeline's own code
TypeError == [response |-> FALSE, request |-> FALSE, code |-> "", message |-> "TypeError"]

NoContentError ==
  [response |-> FALSE, request |-> FALSE, code |-> "", message |-> "No content generated from API"]

(***************************************************************************)
(* generateContent as a state machine                                      *)
(***************************************************************************)
VARIABLES
  request,        \* the GenerationRequest of the call
  pc,             \* position of the call: start, awaiting, extracting,
                  \* repairing, validating, done
  promptBuilt,    \* createSystemPrompt has run
  requestSent,    \* axios.post has been issued
  content,        \* response.data.choices[0].message.content
  extraction,     \* parsed value, successful strategy, strategies tried
  blocks,         \* the extracted block array
  fixedBlocks,    \* the array handed to the validator
  usedFallback,   \* the emergency fallback block was inserted
  warnings,       \* postFixValidation.warnings
  result,         \* the GenerationResponse the promise resolves to
  subject,        \* a value a helper is applied to on its own: a field value
                  \* for enforceFieldType, an object graph for sanitizeAllReferences
  tag,            \* the declared field type the subject is enforced against
  outcome,        \* what the last application of the helper reported
  passes,         \* how many times the helper has been applied to the subject
  uiSchema,       \* the page's schema state: the active manifest
  schemaLoadingStatus,  \* 'loading', 'loaded', 'error' or 'custom'
  fetchPending,   \* the manifest fetch started at mount has not settled
  sharesSchema,   \* request.schema is the object the schema state points to
  isGenerating,   \* handleGenerate is between its start and its finally
  generatedContent,     \* the page shows generated content
  generationError       \* the page shows a generation error

\* the variables of a generateContent call
callVars == <<request, pc, promptBuilt, requestSent, content, extraction, blocks, fixedBlocks,
              usedFallback, warnings, result>>

\* the variables of a helper applied on its own
unitVars == <<subject, tag, outcome, passes>>

\* the variables of the page
uiVars == <<uiSchema, schemaLoadingStatus, fetchPending, sharesSchema, isGenerating,
            generatedContent, generationError>>

vars == <<callVars, unitVars, uiVars>>

NoResult == [resolved |-> FALSE, success |-> FALSE, error |-> <<>>, data |-> <<>>]

Failure(parts) == [resolved |-> TRUE, success |-> FALSE, error |-> parts, data |-> <<>>]

Success(bs) == [resolved |-> TRUE, success |-> TRUE, error |-> <<>>, data |-> bs]

NoExtraction == [parsed |-> Undef, successfulStrategy |-> "", tried |-> <<>>]

\* variant: error.message is used without the 'Request failed' default
errorMessage_noDefault(error) ==
  IF error.response THEN "API Error"
  ELSE IF error.request THEN "No response from API - check your internet connection"
  ELSE IF error.code = "ECONNABORTED"
  THEN "Request timeout - the API took too long to respond"
  ELSE error.message

\* the catch block of generateContent: the message for a caught error
errorMessage(error) ==
  IF error.response THEN "API Error"
  ELSE IF error.request THEN "No response from API - check your internet connection"
  ELSE IF error.code = "ECONNABORTED"
  THEN "Request timeout - the API took too long to respond"
  ELSE IF error.message # "" THEN error.message ELSE "Request failed"

\* the catch block: the response returned for a caught error
catchError(error) == Failure(<<errorMessage(error)>>)

\* the emergency fallback block
fallbackBlock ==
  JObj([_type |-> Str("pageSection"), _key |-> Str("fallback-generated"),
        title |-> JStr(<<"Indhold", " ", "ikke", " ", "genereret">>),
        content |-> JArr(<<portableTextBlock(JStr(<<"AI-indholdet", " ", "kunne", " ", "ikke",
                                                   " ", "genereres">>))>>)])

\* variant: the fail-safe is left out
withFallback_omitted(fixed) == fixed

\* the fail-safe after applyAutoFixes
withFallback(fixed) == IF fixed = <<>> THEN <<fallbackBlock>> ELSE fixed

\* the decision after the post-fix validation
decide(fixed, ws) ==
  IF ws # <<>> THEN Failure(<<"Auto-fix failed">> \o [i \in DOMAIN ws |-> ws[i].kind])
  ELSE Success(fixed)

\* no page: generateContent is called directly
NoUi ==
  /\ uiSchema = SchemaNull /\ schemaLoadingStatus = "loading" /\ fetchPending = FALSE
  /\ sharesSchema = FALSE /\ isGenerating = FALSE
  /\ generatedContent = FALSE /\ generationError = FALSE

\* no helper is being applied on its own
NoUnit == subject = Undef /\ tag = "" /\ outcome = NoFix /\ passes = 0

Init ==
  /\ request \in [schema : SeqToSet(Schemas), optionalBlocks : OptionalBlockLists,
                  topic : Topics, keywords : KeywordLists]
  /\ pc = "start"
  /\ promptBuilt = FALSE
  /\ requestSent = FALSE
  /\ content = <<>>
  /\ extraction = NoExtraction
  /\ blocks = <<>>
  /\ fixedBlocks = <<>>
  /\ usedFallback = FALSE
  /\ warnings = <<>>
  /\ result = NoResult
  /\ NoUnit
  /\ NoUi

\* variant: the prompt is built and the request issued whatever the
\* precondition check reports
Start_uncheckedRequest ==
  /\ pc = "start"
  /\ promptBuilt' = TRUE
  /\ requestSent' = TRUE
  /\ pc' = "awaiting"
  /\ UNCHANGED <<request, content, extraction, blocks, fixedBlocks, usedFallback, warnings,
                 result>>
  /\ UNCHANGED <<unitVars, uiVars>>

\* the call up to its await: precondition check, prompt, request
Start ==
  /\ pc = "start"
  /\ IF validateGenerationRequest(request) # <<>>
     THEN /\ result' = Failure(<<"Validation failed">> \o validateGenerationRequest(request))
          /\ pc' = "done"
          /\ UNCHANGED <<promptBuilt, requestSent>>
     ELSE /\ promptBuilt' = TRUE
          /\ requestSent' = TRUE
          /\ pc' = "awaiting"
          /\ UNCHANGED result
  /\ UNCHANGED <<request, content, extraction, blocks, fixedBlocks, usedFallback, warnings>>
  /\ UNCHANGED <<unitVars, uiVars>>

\* the request is rejected: HTTP error status, no response, timeout, other
ProviderFails ==
  /\ pc = "awaiting"
  /\ \E e \in ProviderErrors : result' = catchError(e)
  /\ pc' = "done"
  /\ UNCHANGED <<request, promptBuilt, requestSent, content, extraction, blocks, fixedBlocks,
                 usedFallback, warnings>>
  /\ UNCHANGED <<unitVars, uiVars>>

\* the response has no choices: throw new Error('No content generated from API')
ProviderNoChoices ==
  /\ pc = "awaiting"
  /\ result' = catchError(NoContentError)
  /\ pc' = "done"
  /\ UNCHANGED <<request, promptBuilt, requestSent, content, extraction, blocks, fixedBlocks,
                 usedFallback, warnings>>
  /\ UNCHANGED <<unitVars, uiVars>>

\* the first choice carries no text (content null): content.slice raises
ProviderNullContent ==
  /\ pc = "awaiting"
  /\ result' = catchError(TypeError)
  /\ pc' = "done"
  /\ UNCHANGED <<request, promptBuilt, requestSent, content, extraction, blocks, fixedBlocks,
                 usedFallback, warnings>>
  /\ UNCHANGED <<unitVars, uiVars>>

\* the response carries a reply text
ProviderReplies ==
  /\ pc = "awaiting"
  /\ \E i \in DOMAIN Replies : content' = Replies[i]
  /\ pc' = "extracting"
  /\ UNCHANGED <<request, promptBuilt, requestSent, extraction, blocks, fixedBlocks,
                 usedFallback, warnings, result>>
  /\ UNCHANGED <<unitVars, uiVars>>

\* the extraction cascade, block extraction and the logged preview
Extract ==
  /\ pc = "extracting"
  /\ extraction' = extractJson(content)
  /\ blocks' = extractBlocks(extractJson(content).parsed)
  /\ IF previewThrows(extractBlocks(extractJson(content).parsed))
     THEN result' = catchError(TypeError) /\ pc' = "done"
     ELSE pc' = "repairing" /\ UNCHANGED result
  /\ UNCHANGED <<request, promptBuilt, requestSent, content, fixedBlocks, usedFallback,
                 warnings>>
  /\ UNCHANGED <<unitVars, uiVars>>

\* applyAutoFixes and the fail-safe
Repair ==
  /\ pc = "repairing"
  /\ IF applyAutoFixesThrows(blocks, request.schema)
     THEN /\ result' = catchError(TypeError)
          /\ pc' = "done"
          /\ UNCHANGED <<fixedBlocks, usedFallback, blocks>>
     ELSE /\ fixedBlocks' = withFallback(applyAutoFixes(blocks, request.schema))
          /\ usedFallback' = (applyAutoFixes(blocks, request.schema) = <<>>)
          /\ blocks' = inputAfterFixes(blocks, request.schema)
          /\ pc' = "validating"
          /\ UNCHANGED result
  /\ UNCHANGED <<request, promptBuilt, requestSent, content, extraction, warnings>>
  /\ UNCHANGED <<unitVars, uiVars>>

\* validateContentBlocks and the final decision
Validate ==
  /\ pc = "validating"
  /\ IF validateContentBlocksThrows(fixedBlocks, request.schema)
     THEN result' = catchError(TypeError) /\ UNCHANGED warnings
     ELSE /\ warnings' = validateContentBlocks(fixedBlocks, request.schema)
          /\ result' = decide(fixedBlocks, validateContentBlocks(fixedBlocks, request.schema))
  /\ pc' = "done"
  /\ UNCHANGED <<request, promptBuilt, requestSent, content, extraction, blocks, fixedBlocks,
                 usedFallback>>
  /\ UNCHANGED <<unitVars, uiVars>>

Next ==
  \/ Start
  \/ ProviderFails
  \/ ProviderNoChoices
  \/ ProviderNullContent
  \/ ProviderReplies
  \/ Extract
  \/ Repair
  \/ Validate

Spec == Init /\ [][Next]_vars

(***************************************************************************)
(* Properties                                                              *)
(***************************************************************************)
Done == pc = "done"

\* applyAutoFixes has returned (the array in fixedBlocks is its result, or the
\* fallback when that result was empty)
Repaired == pc = "validating" \/ (pc = "done" /\ fixedBlocks # <<>>)

\* the blocks applyAutoFixes returned
repairedBlocks == IF usedFallback THEN <<>> ELSE fixedBlocks

HasType(b, name) == Get(b, "_type") = Str(name)

NonEmptyError(r) == r.error # <<>> /\ \A i \in DOMAIN r.error : r.error[i] # ""

\* C1: generateContent returns either a failure carrying an error string or a
\* success whose block list is non-empty and passes validateContentBlocks
\* without warnings; it never returns a success with an empty block list.
C1_NonEmptyCompliantSuccess ==
  Done =>
    /\ result.resolved
    /\ ~result.success => NonEmptyError(result)
    /\ result.success =>
         /\ result.data # <<>>
         /\ validateContentBlocks(result.data, request.schema) = <<>>

\* the reply was the empty string and the call ended in a success built from
\* the fallback block
C1_Witness ==
  Done /\ requestSent /\ content = <<>> /\ usedFallback /\ result.success
  /\ extraction.successfulStrategy = "FALLBACK_EMPTY"

\* the response of an ended call is a success with data or a failure with a
\* non-empty error string
WellFormedResponse ==
  /\ result.resolved
  /\ result.success \/ NonEmptyError(result)
  /\ result.success => result.error = <<>>

\* the order of the positions of a call
Rank(p) ==
  CASE p = "start" -> 0
    [] p = "awaiting" -> 1
    [] p = "extracting" -> 2
    [] p = "repairing" -> 3
    [] p = "validating" -> 4
    [] OTHER -> 5

\* C2: generateContent never throws or rejects: whatever the provider does and
\* whatever the reply holds, every step of the call leads to a later position
\* of the same call, and a call that has ended has resolved to a success with
\* data or a failure with a non-empty error string.
C2_AlwaysResolves ==
  /\ [](Done => WellFormedResponse)
  /\ [](~Done => ~result.resolved)
  /\ [][Rank(pc') > Rank(pc)]_vars

\* a TypeError raised by a null entry among the extracted blocks was caught
\* and turned into a failure
C2_Witness ==
  /\ Done /\ blocks # <<>> /\ \E i \in DOMAIN blocks : blocks[i] = JNull
  /\ ~result.success /\ result.error = <<"TypeError">>

\* a reference object with a string _ref
IsReferenceObject(x) == x.k = "obj" /\ Get(x, "_type") = Str("reference") /\ IsStr(Get(x, "_ref"))

\* C3: in every providerList block returned by applyAutoFixes, providers is a
\* non-empty array of reference objects, every _ref is in PROVIDER_WHITELIST
\* and entry 0 refers to PROVIDER_WHITELIST[0].
C3_PreferredProviderFirst ==
  Repaired =>
    \A j \in DOMAIN repairedBlocks :
      HasType(repairedBlocks[j], "providerList") =>
        LET ps == Get(repairedBlocks[j], "providers") IN
        /\ IsArray(ps) /\ ps.v # <<>>
        /\ \A n \in DOMAIN ps.v :
             IsReferenceObject(ps.v[n]) /\ isValidProviderId(Get(ps.v[n], "_ref"))
        /\ Get(ps.v[1], "_ref") = Str(PROVIDER_WHITELIST[1])

\* a providerList whose providers were plain strings has been repaired
C3_Witness ==
  /\ pc = "validating"
  /\ \E i \in DOMAIN blocks :
       /\ HasType(blocks[i], "providerList")
       /\ IsArray(Get(blocks[i], "providers")) /\ Get(blocks[i], "providers").v # <<>>
       /\ \A n \in DOMAIN Get(blocks[i], "providers").v : IsStr(Get(blocks[i], "providers").v[n])
       /\ i \in DOMAIN fixedBlocks /\ HasType(fixedBlocks[i], "providerList")

\* C4 (as claimed): after applyAutoFixes every entry of faqItems of every
\* faqGroup block is an inline faqItem record with a string question and an
\* array answer, never a bare reference.
C4_FaqItemsInline ==
  Repaired =>
    \A j \in DOMAIN repairedBlocks :
      HasType(repairedBlocks[j], "faqGroup") =>
        /\ IsArray(Get(repairedBlocks[j], "faqItems"))
        /\ \A n \in DOMAIN Get(repairedBlocks[j], "faqItems").v :
             LET item == Get(repairedBlocks[j], "faqItems").v[n] IN
             /\ item.k = "obj"
             /\ Get(item, "_type") = Str("faqItem")
             /\ IsStr(Get(item, "question"))
             /\ IsArray(Get(item, "answer"))

\* an entry that fixFaqGroup is said to drop
IsDroppedFaqEntry(item) ==
  \/ item.k # "obj"
  \/ Get(item, "_type") = Str("reference")
  \/ ~IsStr(Get(item, "question"))
  \/ ~IsArray(Get(item, "answer"))

\* the faqGroup blocks fixFaqGroup is called for
faqGroupInputs ==
  {i \in keptBlocks(blocks) :
     HasType(blocks[i], "faqGroup") /\ ~fixBlockThrows(blocks[i], request.schema)}

\* C5: after fixFaqGroup the faqItems array has at least one entry; when the
\* input faqItems is absent, no array, empty or holds only entries that are
\* dropped, it holds exactly the one placeholder record.
C5_FaqItemsNonEmpty ==
  \A i \in faqGroupInputs :
    LET before == beforeSpecialCases(blocks[i], request.schema)
        items0 == Get(before, "faqItems")
        items == Get(fixFaqGroup(before), "faqItems")
    IN  /\ IsArray(items) /\ Len(items.v) >= 1
        /\ (~IsArray(items0) \/ \A n \in DOMAIN items0.v : IsDroppedFaqEntry(items0.v[n]))
             => Len(items.v) = 1 /\ items.v[1] = placeholderFaqItem

\* a faqGroup with two bare references and no inline record went through the
\* repair and holds one entry
C5_Witness ==
  /\ pc = "validating"
  /\ \E i \in faqGroupInputs :
       /\ Get(blocks[i], "faqItems") = JArr(<<Ref("a"), Ref("b")>>)
       /\ Len(Get(fixedBlocks[i], "faqItems").v) = 1

\* the block's type is one of the manifest's block types
KnownType(b, schema) ==
  IsStr(Get(b, "_type")) /\ Includes(manifestBlockTypes(schema), TypeName(Get(b, "_type")))

\* C6 (as claimed): a block whose type is not one of the manifest's block
\* types is dropped: no such block is among the blocks handed on to validation.
C6_UnknownTypeDropped ==
  Repaired => \A j \in DOMAIN fixedBlocks : KnownType(fixedBlocks[j], request.schema)

\* C6 (amended): applyAutoFixes drops a block only when it is no object or
\* has no non-empty string _type, never because the manifest does not list
\* its type; a block of a type the manifest does not list that reaches the
\* validator makes generateContent return a failure, so no success result
\* holds such a block.
C6_UnknownTypeFailsRequest ==
  /\ Repaired => Len(repairedBlocks) = Cardinality(keptBlocks(blocks))
  /\ Done =>
       /\ (\E j \in DOMAIN fixedBlocks : ~KnownType(fixedBlocks[j], request.schema))
            => /\ ~result.success
               /\ \/ result = catchError(TypeError)
                  \/ \E n \in DOMAIN warnings : warnings[n].kind = "Invalid _type"
       /\ result.success =>
            \A j \in DOMAIN result.data : KnownType(result.data[j], request.schema)

\* a reply with a bogusBlock after hero and pageSection: the block was kept
\* by the repair and the call failed
C6_Witness ==
  /\ Done /\ ~result.success
  /\ Len(blocks) = 3 /\ HasType(blocks[3], "bogusBlock")
  /\ Len(fixedBlocks) = 3 /\ HasType(fixedBlocks[3], "bogusBlock")
  /\ HasType(fixedBlocks[1], "hero")

IndicesOfType(bs, name) == {j \in DOMAIN bs : HasType(bs[j], name)}

\* C7 (as claimed): in every success result, if a hero block and a
\* pageSection block are both present the hero block precedes the pageSection
\* block.
C7_HeroBeforePageSection ==
  (Done /\ result.success) =>
    \A h \in IndicesOfType(result.data, "hero") :
      \A q \in IndicesOfType(result.data, "pageSection") : h < q

\* C8 (as claimed): in every success result block 0 has type hero and block 1
\* has type pageSection.
C8_MandatoryBlocksFirst ==
  (Done /\ result.success) =>
    /\ Len(result.data) >= 2
    /\ HasType(result.data[1], "hero")
    /\ HasType(result.data[2], "pageSection")

\* C9: when validateGenerationRequest reports an error the call returns a
\* failure without building the prompt, issuing the request, or running
\* extraction, repair or validation.
C9_PreconditionsFirst ==
  validateGenerationRequest(request) # <<>> =>
    /\ pc \in {"start", "done"}
    /\ ~promptBuilt /\ ~requestSent
    /\ content = <<>> /\ extraction = NoExtraction /\ blocks = <<>>
    /\ fixedBlocks = <<>> /\ warnings = <<>>
    /\ Done => ~result.success /\ result.error[1] = "Validation failed"

\* a request with a blank topic has been refused
C9_Witness ==
  /\ Done /\ IsBlank(request.topic) /\ request.schema = SchemaTyped
  /\ ~result.success /\ ~requestSent

\* the preconditions, stated on the request
ManifestMissing(req) == ~req.schema.present \/ ~req.schema.hasTypes

TopicEmpty(req) == IsBlank(req.topic)

NoKeyword(req) == \A i \in DOMAIN req.keywords : IsBlank(req.keywords[i])

InvalidOptionalBlock(req) ==
  /\ ~ManifestMissing(req)
  /\ \E i \in DOMAIN req.optionalBlocks :
       \A j \in DOMAIN req.schema.contentBlockTypes :
         req.schema.contentBlockTypes[j].type # req.optionalBlocks[i]

Refused == Done /\ ~requestSent

\* C10 (as claimed): the failure enumerates every violated precondition, for
\* every combination of violations.
C10_AllViolationsEnumerated ==
  Refused =>
    /\ ManifestMissing(request) => Includes(result.error, ErrNoManifest)
    /\ InvalidOptionalBlock(request) => Includes(result.error, ErrInvalidBlocks)
    /\ TopicEmpty(request) => Includes(result.error, ErrTopic)
    /\ NoKeyword(request) => Includes(result.error, ErrKeywords)

\* C10 (amended): when the manifest is loaded the failure enumerates every
\* violated precondition among unknown optional block, empty topic and missing
\* keyword, and no other; when the manifest is missing the failure names the
\* missing manifest only.
C10_ViolationsEnumeratedUnlessNoManifest ==
  Refused =>
    IF ManifestMissing(request)
    THEN result.error = <<"Validation failed", ErrNoManifest>>
    ELSE /\ InvalidOptionalBlock(request) <=> Includes(result.error, ErrInvalidBlocks)
         /\ TopicEmpty(request) <=> Includes(result.error, ErrTopic)
         /\ NoKeyword(request) <=> Includes(result.error, ErrKeywords)
         /\ ~Includes(result.error, ErrNoManifest)

\* a request violating three preconditions at once, with the manifest loaded
C10_Witness ==
  /\ Refused /\ ~ManifestMissing(request)
  /\ InvalidOptionalBlock(request) /\ TopicEmpty(request) /\ NoKeyword(request)
  /\ Len(result.error) = 4

\* the kind of terminal outcome of the pipeline for a reply text: the call
\* ended in the catch block, in the 'Auto-fix failed' failure, in a success
\* built from the fallback block, or in a success built from repaired blocks
outcomeKind(text, schema) ==
  LET bs == extractBlocks(extractJson(text).parsed) IN
  IF previewThrows(bs) \/ applyAutoFixesThrows(bs, schema) THEN "caught"
  ELSE LET fixed == applyAutoFixes(bs, schema) IN
       IF validateContentBlocksThrows(withFallback(fixed), schema) THEN "caught"
       ELSE IF validateContentBlocks(withFallback(fixed), schema) # <<>> THEN "failure"
       ELSE IF fixed = <<>> THEN "fallback"
       ELSE "success"

\* the kind of terminal outcome of the call that has ended
resultKind ==
  IF ~result.success THEN (IF warnings # <<>> THEN "failure" ELSE "caught")
  ELSE IF usedFallback THEN "fallback" ELSE "success"

\* no JSON could be recovered from the reply of this call
NoJsonRecovered == extraction.successfulStrategy = "FALLBACK_EMPTY"

\* the blocks of a reply text were extracted and repaired, and the repaired
\* blocks still fail validation
StillFailsAfterRepair(text, schema) ==
  LET bs == extractBlocks(extractJson(text).parsed) IN
  /\ extractJson(text).successfulStrategy # "FALLBACK_EMPTY"
  /\ ~previewThrows(bs) /\ ~applyAutoFixesThrows(bs, schema)
  /\ applyAutoFixes(bs, schema) # <<>>
  /\ ~validateContentBlocksThrows(applyAutoFixes(bs, schema), schema)
  /\ validateContentBlocks(applyAutoFixes(bs, schema), schema) # <<>>

\* C11 (as claimed): a call whose reply yields no JSON ends in the same kind of
\* outcome as a call, for the same request, whose repaired blocks still fail
\* validation: both a failure or both the fallback document.
C11_ExtractionFailureLikeValidationFailure ==
  (Done /\ NoJsonRecovered) =>
    \A i \in DOMAIN Replies :
      StillFailsAfterRepair(Replies[i], request.schema) =>
        outcomeKind(Replies[i], request.schema) = resultKind

\* C12 (as claimed): whenever the fallback block has been synthesized, for a
\* manifest the precondition check accepted, the single fallback block passes
\* validateContentBlocks against that manifest with no warnings.
C12_FallbackCompliant ==
  usedFallback =>
    /\ fixedBlocks = <<fallbackBlock>>
    /\ validateContentBlocks(fixedBlocks, request.schema) = <<>>

\* a field of a block holds a non-empty string or a non-empty array
Populated(b, field) ==
  /\ Get(b, field).k \in {"str", "arr"}
  /\ Get(b, field).v # <<>>

\* C13 (as claimed): when none of the four extraction stages recovers JSON
\* from the reply, extraction yields an empty block list without raising and
\* generateContent returns exactly one block, of type pageSection, whose
\* _key, title and content are populated.
C13_NoJsonReturnsFallbackBlock ==
  (Done /\ NoJsonRecovered) =>
    /\ blocks = <<>>
    /\ result.success
    /\ Len(result.data) = 1
    /\ HasType(result.data[1], "pageSection")
    /\ Populated(result.data[1], "_key")
    /\ Populated(result.data[1], "title")
    /\ Populated(result.data[1], "content")

\* C14 (as claimed): the step taken from Extracting always leads to Repairing:
\* whatever block array extraction produced, applyAutoFixes is run on it next
\* and the call never ends between extraction and repair.
C14_ExtractingThenRepairing == [][pc = "extracting" => pc' = "repairing"]_vars

\* the copies of the extracted blocks that reach the block-specific repairers
\* (kept by the callback, field enforcement did not raise)
repairerInputs ==
  {beforeSpecialCases(blocks[i], request.schema) :
     i \in {j \in keptBlocks(blocks) :
              ~fieldEnforcementThrows(universalSafeguards(workingCopy(blocks[j]).val),
                 extractSchemaFieldTypes(request.schema, TypeName(Get(blocks[j], "_type"))))}}

\* C15 (as claimed): fixFaqGroup and fixProviderList return normally for every
\* block handed to them, whatever faqItems / providers hold (null, numbers,
\* strings, nested arrays) and whether or not the manifest declares a type for
\* those fields.  (fixFaqGroup tests !item before it reads item._type and has
\* no raising path; fixProviderList reads p._type of each entry.)
C15_RepairersTotal ==
  pc = "repairing" =>
    \A b \in repairerInputs :
      HasType(b, "providerList") => ~fixProviderListThrows(b)

\* the call got a reply text and went on to the repair stage
ReachedRepair == extraction # NoExtraction /\ ~previewThrows(blocks)

\* C16 (as claimed): once the reply text has been extracted and handed to the
\* repair stage, no repair or validation step raises: a call that then ends in
\* a failure ends in 'Auto-fix failed' followed by the validator's warnings.
C16_OnlyDescriptiveFailureAfterExtraction ==
  (Done /\ ReachedRepair /\ ~result.success) =>
    /\ warnings # <<>>
    /\ result.error = <<"Auto-fix failed">> \o [i \in DOMAIN warnings |-> warnings[i].kind]

(***************************************************************************)
(* enforceFieldType applied on its own to one field, as the enforcement    *)
(* loop of applyAutoFixes applies it                                       *)
(***************************************************************************)
\* how many times a helper is applied to the same subject
MaxPasses == 2

\* the declared field types of the manifests, and one the code has no case for
FieldTypeTags ==
  {"string", "number", "array of strings", "array of references",
   "array of Portable Text blocks", "icon.manager", "image?", "boolean"}

\* field values a reply can carry
FieldValues ==
  {JNull, JBool(TRUE), JBool(FALSE), JNum(7), JNum(0),
   Str("X"), JStr(<<>>), JStr(<<" ">>), Str("42"), JStr(<<"to", " ", "ord">>),
   JArr(<<>>), JArr(<<Str("a"), Str("b")>>), JArr(<<PTDeep>>), JArr(<<PTShallow>>),
   JArr(<<JNull>>), JArr(<<JNum(7)>>), JArr(<<JArr(<<Str("a")>>)>>),
   JArr(<<JObj([_type |-> Str("block"), children |-> JArr(<<JNull>>)])>>),
   Ref("andel-id"), EmptyObj}

CoercionInit ==
  /\ subject \in FieldValues
  /\ tag \in FieldTypeTags
  /\ outcome = NoFix
  /\ passes = 0
  /\ request = [schema |-> SchemaNull, optionalBlocks |-> <<>>, topic |-> <<>>,
                keywords |-> <<>>]
  /\ pc = "enforcing"
  /\ promptBuilt = FALSE
  /\ requestSent = FALSE
  /\ content = <<>>
  /\ extraction = NoExtraction
  /\ blocks = <<>>
  /\ fixedBlocks = <<>>
  /\ usedFallback = FALSE
  /\ warnings = <<>>
  /\ result = NoResult
  /\ NoUi

\* one run of the loop body for the field: a fix is stored in the field, a
\* drop deletes the field (it is then no key of the block any more), a raise
\* ends the repair
Enforce ==
  /\ pc = "enforcing"
  /\ passes < MaxPasses
  /\ subject # Undef
  /\ ~outcome.threw
  /\ outcome' = enforceFieldType(subject, tag)
  /\ subject' = IF enforceFieldType(subject, tag).fixed
                THEN enforceFieldType(subject, tag).value
                ELSE IF enforceFieldType(subject, tag).dropped THEN Undef
                ELSE subject
  /\ passes' = passes + 1
  /\ UNCHANGED <<tag, callVars, uiVars>>

CoercionNext == Enforce

CoercionSpec == CoercionInit /\ [][CoercionNext]_vars

\* the value already has the shape its declared type asks for
RightShape(value, expectedType) ==
  \/ expectedType = "string" /\ IsStr(value)
  \/ expectedType = "number" /\ value.k = "num"
  \/ IncludesArray(expectedType) /\ IsArray(value)

\* C17: enforceFieldType applied to a value that already has the shape of its
\* declared type (a string for 'string', a number for 'number', an array for an
\* array type) reports neither a fix nor a drop and leaves the field as it is;
\* applied to the value stored by a previous fix it reports no further fix or
\* drop either.
C17_CoercionIdempotent ==
  [][ /\ RightShape(subject, tag) => (outcome' = NoFix /\ subject' = subject)
      /\ outcome.fixed => (outcome' = NoFix /\ subject' = subject) ]_vars

\* a string was wrapped into a synthetic paragraph by the first pass and the
\* second pass left it alone
C17_Witness ==
  /\ passes = 2
  /\ tag = "array of Portable Text blocks"
  /\ subject = JArr(<<portableTextBlock(Str("X"))>>)
  /\ outcome = NoFix

(***************************************************************************)
(* sanitizeAllReferences applied on its own to an object graph             *)
(***************************************************************************)
\* objects and scalars the sanitizer meets: references that are clean, carry
\* extra fields, lack _type, or have a _ref that is no string
GraphLeaves ==
  {JNull, JNum(7), Str("t"), PTDeep, Ref("a"), RefExtra, FaqItemWithRef,
   JObj([_ref |-> JNum(5), name |-> Str("n")]),
   JObj([_ref |-> JStr(<<>>), _type |-> Str("x"), inner |-> RefExtra]),
   JObj([_type |-> Str("reference"), label |-> Str("l")]),
   JObj([_ref |-> JObj([_ref |-> Str("a"), extra |-> JNum(7)]), _type |-> Str("reference")]),
   JObj([_ref |-> JBool(TRUE), _key |-> Str("k"), _weak |-> JBool(TRUE)]),
   JObj([_ref |-> Str("a"), _key |-> Str("k"), _weak |-> JBool(TRUE), title |-> Str("t")]),
   JObj([_type |-> Str("reference"), _ref |-> JNum(0)]),
   JObj([_type |-> Str("reference"), _ref |-> JBool(FALSE), _key |-> Str("k")]),
   JObj([_type |-> Str("reference"), _ref |-> JNull, title |-> Str("t")])}

\* the leaves as they are and nested in arrays and objects
ObjectGraphs ==
  GraphLeaves
  \cup {JArr(<<x, Str("t")>>) : x \in GraphLeaves}
  \cup {JObj([_type |-> Str("faqGroup"), faqItems |-> JArr(<<x>>)]) : x \in GraphLeaves}
  \cup {JObj([settings |-> JObj([items |-> JArr(<<JArr(<<x>>), x>>)])]) : x \in GraphLeaves}
  \cup {JArr(<<x, y>>) : x \in {RefExtra, FaqItemWithRef}, y \in GraphLeaves}

SanitizerInit ==
  /\ subject \in ObjectGraphs
  /\ tag = ""
  /\ outcome = [count |-> 0]
  /\ passes = 0
  /\ request = [schema |-> SchemaNull, optionalBlocks |-> <<>>, topic |-> <<>>,
                keywords |-> <<>>]
  /\ pc = "sanitizing"
  /\ promptBuilt = FALSE
  /\ requestSent = FALSE
  /\ content = <<>>
  /\ extraction = NoExtraction
  /\ blocks = <<>>
  /\ fixedBlocks = <<>>
  /\ usedFallback = FALSE
  /\ warnings = <<>>
  /\ result = NoResult
  /\ NoUi

\* one pass of sanitizeAllReferences over the graph, in place
Sanitize ==
  /\ pc = "sanitizing"
  /\ passes < MaxPasses
  /\ subject' = sanitizeAllReferences(subject)
  /\ outcome' = [count |-> sanitizedCount(subject)]
  /\ passes' = passes + 1
  /\ UNCHANGED <<tag, callVars, uiVars>>

SanitizerNext == Sanitize

SanitizerSpec == SanitizerInit /\ [][SanitizerNext]_vars

\* C18: a pass of sanitizeAllReferences over a graph that has been sanitized
\* before changes nothing in the graph and returns a count of zero.
C18_SanitizerIdempotent ==
  [][passes >= 1 => (subject' = subject /\ outcome'.count = 0)]_vars

\* an inline item that carried a _ref was cut down to a reference by the first
\* pass (two changes counted), and the second pass has run over the result
C18_Witness ==
  /\ passes = 2
  /\ outcome.count = 0
  /\ subject = JObj([_type |-> Str("faqGroup"),
                     faqItems |-> JArr(<<JObj([_type |-> Str("reference"), _key |-> Str("f2"),
                                              _ref |-> Str("faq-doc")])>>)])

\* C19: applyAutoFixes writes only to its own copies: when it returns, whether
\* it dropped blocks, fixed fields or sanitized references, the extracted block
\* array and every object in it are what they were before the call.
C19_InputUntouched == [][pc = "repairing" => blocks' = blocks]_vars

\* a block extracted without _key was given one in the repaired array while
\* the extracted block still has none
C19_Witness ==
  /\ pc = "validating"
  /\ blocks # <<>> /\ ~HasKey(blocks[1], "_key")
  /\ fixedBlocks # <<>> /\ Get(fixedBlocks[1], "_key") = generatedKey
  /\ HasType(fixedBlocks[1], "hero") /\ HasType(blocks[1], "hero")

\* C20 (as claimed): in every success result each block carries a non-empty
\* string _key and no two blocks of the list carry the same _key.
C20_KeysUnique ==
  (Done /\ result.success) =>
    /\ \A i \in DOMAIN result.data :
         IsStr(Get(result.data[i], "_key")) /\ Get(result.data[i], "_key").v # <<>>
    /\ \A i, j \in DOMAIN result.data :
         i # j => Get(result.data[i], "_key") # Get(result.data[j], "_key")

(***************************************************************************)
(* The page (_app.tsx).  The schema state holds a reference to a manifest  *)
(* object; handleGenerate copies that reference into the request it hands  *)
(* to generateContent.  sharesSchema records that the request of the call  *)
(* in flight and the schema state point to the same object, so that a      *)
(* write through one would be seen through the other.  generatedContent    *)
(* and generationError record whether the page shows content or an error.  *)
(***************************************************************************)

\* /schemas/elportal-schema-manifest.json, and the files a user uploads: a
\* manifest of their own, and a Markdown file stored as {content, filename}
DefaultManifest == SchemaTyped

UploadedFiles == {[json |-> TRUE, parses |-> TRUE, schema |-> SchemaCustom],
                  [json |-> FALSE, parses |-> FALSE, schema |-> SchemaNoTypes],
                  [json |-> TRUE, parses |-> FALSE, schema |-> SchemaNull]}

\* an API key: whether it starts with 'sk-or-v1-', and its length
ApiKeys == {[prefixed |-> FALSE, length |-> 0], [prefixed |-> TRUE, length |-> 12],
            [prefixed |-> TRUE, length |-> 73]}

validateApiKey(apiKey) == apiKey.length # 0 /\ apiKey.prefixed /\ apiKey.length > 20

NoRequest == [schema |-> SchemaNull, optionalBlocks |-> <<>>, topic |-> <<>>,
              keywords |-> <<>>]

\* no call of generateContent is in flight
NoCall ==
  /\ request = NoRequest /\ pc = "idle" /\ promptBuilt = FALSE /\ requestSent = FALSE
  /\ content = <<>> /\ extraction = NoExtraction /\ blocks = <<>> /\ fixedBlocks = <<>>
  /\ usedFallback = FALSE /\ warnings = <<>> /\ result = NoResult

\* the page at mount: useState initial values, loadDefaultSchemas started
Mounted ==
  /\ uiSchema = SchemaNull /\ schemaLoadingStatus = "loading" /\ fetchPending = TRUE
  /\ sharesSchema = FALSE /\ isGenerating = FALSE
  /\ generatedContent = FALSE /\ generationError = FALSE

UiInit == NoCall /\ NoUnit /\ Mounted

\* the call's locals go away
callEnds ==
  /\ request' = NoRequest /\ pc' = "idle" /\ promptBuilt' = FALSE /\ requestSent' = FALSE
  /\ content' = <<>> /\ extraction' = NoExtraction /\ blocks' = <<>> /\ fixedBlocks' = <<>>
  /\ usedFallback' = FALSE /\ warnings' = <<>> /\ result' = NoResult

\* window.location.reload(): the page is mounted again
reload ==
  /\ uiSchema' = SchemaNull /\ schemaLoadingStatus' = "loading" /\ fetchPending' = TRUE
  /\ sharesSchema' = FALSE /\ isGenerating' = FALSE
  /\ generatedContent' = FALSE /\ generationError' = FALSE

\* variant: the new manifest is written into the object the state points to
setSchema_inPlace(next, req, shared) ==
  [active |-> next,
   request |-> IF shared THEN [req EXCEPT !.schema = next] ELSE req,
   shared |-> shared]

\* setSchema(next): the state points to a new object; whoever holds the old
\* one keeps it as it was
setSchema(next, req, shared) == [active |-> next, request |-> req, shared |-> FALSE]

\* loadDefaultSchemas: the manifest fetch resolves with an ok response
FetchResolves ==
  /\ fetchPending
  /\ fetchPending' = FALSE
  /\ LET s == setSchema(DefaultManifest, request, sharesSchema)
     IN  uiSchema' = s.active /\ request' = s.request /\ sharesSchema' = s.shared
  /\ schemaLoadingStatus' = "loaded"
  /\ UNCHANGED <<pc, promptBuilt, requestSent, content, extraction, blocks, fixedBlocks,
                 usedFallback, warnings, result>>
  /\ UNCHANGED <<unitVars, isGenerating, generatedContent, generationError>>

\* loadDefaultSchemas: the fetch is rejected or the response is not ok
FetchFails ==
  /\ fetchPending
  /\ fetchPending' = FALSE
  /\ schemaLoadingStatus' = "error"
  /\ UNCHANGED <<callVars, unitVars, uiSchema, sharesSchema, isGenerating, generatedContent,
                 generationError>>

\* handleSchemaUpload once file.text() has resolved; a .json file that does
\* not parse raises and leaves the state alone
handleSchemaUpload ==
  \E file \in UploadedFiles :
    /\ ~(file.json /\ ~file.parses)
    /\ LET s == setSchema(file.schema, request, sharesSchema)
       IN  uiSchema' = s.active /\ request' = s.request /\ sharesSchema' = s.shared
    /\ schemaLoadingStatus' = "custom"
    /\ UNCHANGED <<pc, promptBuilt, requestSent, content, extraction, blocks, fixedBlocks,
                   usedFallback, warnings, result>>
    /\ UNCHANGED <<unitVars, fetchPending, isGenerating, generatedContent, generationError>>

\* resetToDefaultSchema, offered while the status is 'custom': the page is
\* reloaded, which abandons a call in flight and mounts the page again
resetToDefaultSchema ==
  /\ schemaLoadingStatus = "custom"
  /\ callEnds /\ reload
  /\ UNCHANGED unitVars

\* handleGenerate up to its await, generateContent up to its own await
\* included; the button is disabled while a call is in flight
handleGenerate ==
  \E topic \in Topics, keywords \in KeywordLists, optionalBlocks \in OptionalBlockLists,
     apiKey \in ApiKeys :
    LET cleanKeywords ==
          SelectSeq([i \in DOMAIN keywords |-> Trim(keywords[i])], LAMBDA k : k # <<>>)
        req == [topic |-> Trim(topic), keywords |-> cleanKeywords, schema |-> uiSchema,
                optionalBlocks |-> optionalBlocks]
    IN  /\ pc = "idle" /\ ~isGenerating
        /\ ~IsBlank(topic)
        /\ uiSchema.present /\ schemaLoadingStatus \notin {"loading", "error"}
        /\ cleanKeywords # <<>>
        /\ validateApiKey(apiKey)
        /\ isGenerating' = TRUE
        /\ generationError' = FALSE
        /\ request' = req
        /\ sharesSchema' = TRUE
        /\ IF validateGenerationRequest(req) # <<>>
           THEN /\ result' = Failure(<<"Validation failed">> \o validateGenerationRequest(req))
                /\ pc' = "done"
                /\ UNCHANGED <<promptBuilt, requestSent>>
           ELSE /\ promptBuilt' = TRUE
                /\ requestSent' = TRUE
                /\ pc' = "awaiting"
                /\ result' = NoResult
        /\ UNCHANGED <<content, extraction, blocks, fixedBlocks, usedFallback, warnings>>
        /\ UNCHANGED <<unitVars, uiSchema, schemaLoadingStatus, fetchPending,
                       generatedContent>>

\* handleGenerate after its await: the response is shown
Finish ==
  /\ pc = "done" /\ isGenerating
  /\ IF result.success
     THEN generatedContent' = TRUE /\ UNCHANGED generationError
     ELSE generationError' = TRUE /\ UNCHANGED generatedContent
  /\ isGenerating' = FALSE
  /\ sharesSchema' = FALSE
  /\ callEnds
  /\ UNCHANGED <<unitVars, uiSchema, schemaLoadingStatus, fetchPending>>

UiNext ==
  \/ FetchResolves
  \/ FetchFails
  \/ handleSchemaUpload
  \/ resetToDefaultSchema
  \/ handleGenerate
  \/ ProviderFails
  \/ ProviderNoChoices
  \/ ProviderNullContent
  \/ ProviderReplies
  \/ Extract
  \/ Repair
  \/ Validate
  \/ Finish

UiSpec == UiInit /\ [][UiNext]_vars

\* C21: while a call of generateContent is in flight, no step of the page
\* (an uploaded schema installed, the manifest fetch settling) changes the
\* request the call was given: the schema it captured stays as captured.
C21_SnapshotUntouched == [][(isGenerating /\ isGenerating') => request' = request]_vars

\* a call finished successfully after the page's schema was replaced under it
C21_Witness ==
  /\ isGenerating /\ pc = "done" /\ result.success
  /\ request.schema = DefaultManifest /\ uiSchema = SchemaCustom

\* C22: once an upload has installed a custom schema, every step other than
\* the reset leaves the status 'custom' and the active schema an uploaded one.
C22_CustomStays ==
  [][(schemaLoadingStatus = "custom" /\ schemaLoadingStatus' # "loading")
       => (schemaLoadingStatus' = "custom"
           /\ uiSchema' \in {file.schema : file \in UploadedFiles})]_vars

(***************************************************************************)
(* getProviderSelection on its own (utils/providerIds).  subject is the    *)
(* count asked for, outcome the array returned.                            *)
(***************************************************************************)
MaxCount == 6

\* every order of the entries of s: Array.prototype.sort with the comparator
\* () => 0.5 - Math.random() can leave the array in any order
RECURSIVE Orders(_, _)
Orders(s, idx) ==
  IF idx = {} THEN {<<>>}
  ELSE UNION {{<<s[i]>> \o rest : rest \in Orders(s, idx \ {i})} : i \in idx}

\* s.slice(0, end), end possibly negative
SliceTo(s, end) ==
  LET e == IF end < 0 THEN (IF Len(s) + end < 0 THEN 0 ELSE Len(s) + end)
           ELSE IF end > Len(s) THEN Len(s) ELSE end
  IN  SubSeq(s, 1, e)

RECURSIVE padded(_, _)
padded(extras, count) ==
  IF Len(extras) < count - 1 THEN padded(Append(extras, PROVIDER_WHITELIST[1]), count)
  ELSE extras

\* getProviderSelection(count): the arrays it can return
getProviderSelection(count) ==
  LET extras == padded(SelectSeq(PROVIDER_WHITELIST, LAMBDA id : id # PROVIDER_WHITELIST[1]),
                       count)
  IN  {<<PROVIDER_WHITELIST[1]>> \o SliceTo(sorted, count - 1) :
         sorted \in Orders(extras, DOMAIN extras)}

SelectionInit ==
  /\ subject \in 0..MaxCount
  /\ tag = ""
  /\ outcome = <<>>
  /\ passes = 0
  /\ request = [schema |-> SchemaNull, optionalBlocks |-> <<>>, topic |-> <<>>,
                keywords |-> <<>>]
  /\ pc = "selecting"
  /\ promptBuilt = FALSE
  /\ requestSent = FALSE
  /\ content = <<>>
  /\ extraction = NoExtraction
  /\ blocks = <<>>
  /\ fixedBlocks = <<>>
  /\ usedFallback = FALSE
  /\ warnings = <<>>
  /\ result = NoResult
  /\ NoUi

Select ==
  /\ pc = "selecting"
  /\ outcome' \in getProviderSelection(subject)
  /\ pc' = "selected"
  /\ UNCHANGED <<request, promptBuilt, requestSent, content, extraction, blocks, fixedBlocks,
                 usedFallback, warnings, result>>
  /\ UNCHANGED <<subject, tag, passes, uiVars>>

SelectionNext == Select

SelectionSpec == SelectionInit /\ [][SelectionNext]_vars

\* C23: the array getProviderSelection returns starts with the first
\* whitelist id, and its other entries are whitelist ids other than that
\* one, no two of them equal.
C23_SelectionDistinct ==
  pc = "selected" =>
    /\ outcome # <<>> /\ outcome[1] = PROVIDER_WHITELIST[1]
    /\ \A i \in 2..Len(outcome) :
         /\ outcome[i] \in SeqToSet(PROVIDER_WHITELIST) \ {PROVIDER_WHITELIST[1]}
         /\ \A j \in 2..Len(outcome) : i # j => outcome[i] # outcome[j]

\* C24 (as claimed): after the repair, the providers array of every
\* providerList block holds at most 4 entries, whether the repair replaced
\* the array or kept it.
C24_AtMostFourProviders ==
  pc \in {"validating", "done"} =>
    \A i \in DOMAIN fixedBlocks :
      (HasType(fixedBlocks[i], "providerList") /\ IsArray(Get(fixedBlocks[i], "providers")))
        => Len(Get(fixedBlocks[i], "providers").v) <= 4

\* the stages of the cascade, each taken on its own: the text a stage hands
\* to JSON.parse and what the parse gives
StageNames == <<"DIRECT_PARSE", "MARKDOWN_EXTRACTION", "BOUNDARY_DETECTION", "CONTENT_CLEANING">>

stageParse(k, text) ==
  CASE k = 1 -> JSONParse(text)
    [] k = 2 -> IF codeBlockMatch(text).found THEN JSONParse(codeBlockMatch(text).group)
                ELSE [ok |-> FALSE, val |-> Undef]
    [] k = 3 -> IF jsonMatch(text).found THEN JSONParse(jsonMatch(text).group)
                ELSE [ok |-> FALSE, val |-> Undef]
    [] k = 4 -> JSONParse(cleaned(text))

stageRank(name) == CHOOSE k \in DOMAIN StageNames : StageNames[k] = name

\* the first stage whose parse succeeds, 0 when none does
firstSuccess(text) ==
  IF stageParse(1, text).ok THEN 1
  ELSE IF stageParse(2, text).ok THEN 2
  ELSE IF stageParse(3, text).ok THEN 3
  ELSE IF stageParse(4, text).ok THEN 4
  ELSE 0

\* the attempts were made in the order of the cascade, none after the first
\* stage that succeeded
OrderedUpToFirstSuccess ==
  /\ extraction.tried # <<>> /\ extraction.tried[1] = StageNames[1]
  /\ \A i, j \in DOMAIN extraction.tried :
       i < j => stageRank(extraction.tried[i]) < stageRank(extraction.tried[j])
  /\ \A i \in DOMAIN extraction.tried :
       firstSuccess(content) # 0 => stageRank(extraction.tried[i]) <= firstSuccess(content)

\* C25: the stages run in the order direct parse, fenced block, boundary
\* scan, cleanup; a stage is attempted only if every earlier one failed to
\* parse; and the blocks handed on are those of the value the first
\* successful stage parsed (no blocks when no stage succeeds).
C25_FirstSuccessUsed ==
  extraction # NoExtraction =>
    /\ OrderedUpToFirstSuccess
    /\ LET f == firstSuccess(content) IN
       IF f = 0
       THEN /\ extraction.successfulStrategy = "FALLBACK_EMPTY"
            /\ extractBlocks(extraction.parsed) = <<>>
       ELSE /\ extractBlocks(extraction.parsed) = extractBlocks(stageParse(f, content).val)
            /\ Truthy(stageParse(f, content).val) =>
                 /\ extraction.successfulStrategy = StageNames[f]
                 /\ extraction.parsed = stageParse(f, content).val

\* a fenced reply: the direct parse failed, the fenced block parsed, and no
\* later stage was attempted
C25_Witness ==
  /\ extraction.successfulStrategy = "MARKDOWN_EXTRACTION"
  /\ extraction.tried = <<"DIRECT_PARSE", "MARKDOWN_EXTRACTION">>
  /\ stageParse(3, content).ok /\ stageParse(4, content).ok
  /\ blocks # <<>>

\* index of the '}' that balances the brace opened before i, whatever the
\* nesting; 0 when the text ends first
RECURSIVE BalancingClose(_, _, _)
BalancingClose(t, i, depth) ==
  IF i > Len(t) THEN 0
  ELSE CASE t[i].c = "{" -> BalancingClose(t, i + 1, depth + 1)
         [] t[i].c = "}" -> IF depth = 1 THEN i ELSE BalancingClose(t, i + 1, depth - 1)
         [] OTHER -> BalancingClose(t, i + 1, depth)

FirstOpen(t) == SetMin({i \in DOMAIN t : t[i].c = "{"})

\* C26 (as claimed): when the boundary scan is attempted on a reply whose
\* first '{' has a balancing '}', the text handed to the parser runs from
\* that first '{' to its balancing '}', whatever the nesting depth.
C26_BoundaryIsOutermostObject ==
  (/\ extraction # NoExtraction
   /\ \E i \in DOMAIN extraction.tried : extraction.tried[i] = "BOUNDARY_DETECTION"
   /\ BalancingClose(content, FirstOpen(content) + 1, 1) # 0)
    => jsonMatch(content).group
         = SubSeq(content, FirstOpen(content),
                  BalancingClose(content, FirstOpen(content) + 1, 1))

\* some object of the graph that is treated as a reference (a truthy _ref, or
\* _type 'reference') holds a _ref that is present and not a string
RECURSIVE HoldsNonStringRef(_)
HoldsNonStringRef(obj) ==
  IF TypeOf(obj) # "object" \/ obj.k = "null" THEN FALSE
  ELSE IF IsArray(obj) THEN \E i \in DOMAIN obj.v : HoldsNonStringRef(obj.v[i])
  ELSE IF Truthy(Get(obj, "_ref")) \/ Get(obj, "_type") = Str("reference")
  THEN HasKey(obj, "_ref") /\ ~IsStr(Get(obj, "_ref"))
  ELSE \E f \in DOMAIN obj.v : HoldsNonStringRef(obj.v[f])

\* C27 (as claimed): after sanitizeAllReferences no object treated as a
\* reference holds a _ref that is present but not a string, whatever the
\* non-string value was.
C27_NoNonStringRef == (pc = "sanitizing" /\ passes >= 1) => ~HoldsNonStringRef(subject)

\* the string spells a decimal number
NumericLooking(value) ==
  IsStr(value) /\ Len(Trim(value.v)) = 1 /\ Trim(value.v)[1] \in DOMAIN NumberTable

\* C28 (as claimed): for a field declared 'number', enforceFieldType leaves
\* a number as it is, converts a string only when it spells a number, and
\* drops every other value: the empty string, strings of white space,
\* other strings, booleans, null, objects and arrays.
C28_NumberCoercion ==
  [][(pc = "enforcing" /\ tag = "number" /\ passes = 0) =>
       IF subject.k = "num" THEN outcome' = NoFix /\ subject' = subject
       ELSE IF NumericLooking(subject)
       THEN outcome'.fixed /\ subject'.k = "num"
            /\ subject'.v = NumberTable[Trim(subject.v)[1]]
       ELSE outcome' = Dropped /\ subject' = Undef]_vars

\* the input blocks that are not dropped, in their order
keptInput(contentBlocks) == SelectSeq(contentBlocks, LAMBDA b : ~isDroppedBlock(b))

\* C29 (as claimed): every block the repair returns carries the _type of the
\* input block it was made from; no step rewrites the _type of a kept block.
C29_TypesPreserved ==
  (pc = "validating" /\ ~usedFallback) =>
    /\ Len(fixedBlocks) = Len(keptInput(blocks))
    /\ \A i \in DOMAIN fixedBlocks :
         Get(fixedBlocks[i], "_type") = Get(keptInput(blocks)[i], "_type")

\* an entry that has no block in the output: null, not an
\* object, or without a non-empty string _type
LacksType(b) ==
  \/ b.k \in {"null", "undef"} \/ b.k \notin {"obj", "arr"}
  \/ ~(IsStr(Get(b, "_type")) /\ Get(b, "_type").v # <<>>)

\* out[i] was made from the entry in[i]: it carries that entry's _key when
\* the entry had a usable one, and otherwise that entry's _type
MadeFrom(outBlock, inBlock) ==
  IF IsStr(Get(inBlock, "_key")) /\ ~IsBlank(Get(inBlock, "_key").v)
  THEN Get(outBlock, "_key") = Get(inBlock, "_key")
  ELSE Get(outBlock, "_type") = Get(inBlock, "_type")

\* out holds one block for every entry of in that is not missing, in the
\* order of in, and nothing else
SubsequenceOf(out, in) ==
  LET present == SelectSeq(in, LAMBDA b : ~LacksType(b)) IN
  /\ Len(out) = Len(present)
  /\ \A i \in DOMAIN out : MadeFrom(out[i], present[i])

\* C30: the list applyAutoFixes returns is a subsequence of its input, in
\* the input's order, with no block added, repeated or moved; the entries
\* left out are exactly those that are null, not objects, or without a
\* non-empty string _type.  Stated of the call in progress and of every
\* block list of the replies, those with null entries included.
C30_OutputIsSubsequence ==
  pc = "repairing" =>
    \A k \in DOMAIN Documents \cup {0} :
      LET in == IF k = 0 THEN blocks ELSE Documents[k] IN
      ~applyAutoFixesThrows(in, request.schema)
        => SubsequenceOf(applyAutoFixes(in, request.schema), in)

\* a repaired list that left out one entry and kept the two others in order
C30_Witness ==
  /\ pc = "validating" /\ ~usedFallback
  /\ Len(blocks) = 3 /\ Len(fixedBlocks) = 2
  /\ ~LacksType(blocks[1]) /\ ~LacksType(blocks[2]) /\ LacksType(blocks[3])
  /\ MadeFrom(fixedBlocks[1], blocks[1]) /\ MadeFrom(fixedBlocks[2], blocks[2])

====
